---- MODULE Spec2Model ----
(***************************************************************************)
(* A model of moshpit: the control-channel frame codec (libmoshpit frames), *)
(* the buffered stream reader (ConnectionReader / Connection), and the      *)
(* four-message handshake between the client (moshpit) and the relay        *)
(* (moshpits).                                                              *)
(*                                                                          *)
(* Three specifications share this module:                                  *)
(*   SpecCodec   the pure codec: write_frame's bytes and Frame::parse       *)
(*   SpecFramer  read_frame over a byte stream delivered in chunks          *)
(*   Spec        the handshake tasks of one client and one relay connection *)
(***************************************************************************)
EXTENDS Integers, Sequences, FiniteSets, TLC

(***************************************************************************)
(* Bounds of the model.                                                     *)
(***************************************************************************)
\* longest Vec<u8> payload field (public key, salt, ciphertext) of a frame
MaxDataLen == 1
\* most frames on one modelled byte stream
MaxFrames == 2

(***************************************************************************)
(* Program constants.                                                       *)
(***************************************************************************)
USIZE_LENGTH == 8
NONCE_LEN == 12
UUID_LEN == 16

\* byte values the modelled payloads are drawn from
DataBytes == {0, 3, 255}

(***************************************************************************)
(* Byte-sequence helpers.                                                   *)
(***************************************************************************)
\* the bytes of s from 1-based index lo to hi inclusive (slice [lo-1..hi])
Slice(s, lo, hi) == [i \in 1..(hi - lo + 1) |-> s[lo + i - 1]]

\* all sequences over S of length at most n
SeqsUpTo(S, n) == UNION {[1..k -> S] : k \in 0..n}

\* usize::to_be_bytes: eight bytes, most significant first
ToBE8(n) ==
    <<0, 0, 0, 0,
      (n \div 16777216) % 256, (n \div 65536) % 256, (n \div 256) % 256, n % 256>>

\* usize::from_be_bytes.  Lengths of 2^24 and above cannot be met by any
\* buffer of the model; they are all read as 2^24.
FromBE8(s) ==
    IF \E i \in 1..5 : s[i] # 0
    THEN 16777216
    ELSE s[6] * 65536 + s[7] * 256 + s[8]

(***************************************************************************)
(* bincode, standard() configuration: variable-length integers, little      *)
(* endian.  A value below 251 is one byte; 251 introduces a u16.            *)
(***************************************************************************)
VarintEncode(n) ==
    IF n < 251 THEN <<n>> ELSE <<251, n % 256, (n \div 256) % 256>>

\* decode a varint of data starting at 1-based index pos
VarintDecode(data, pos) ==
    IF pos > Len(data) THEN [ok |-> FALSE, val |-> 0, pos |-> pos]
    ELSE IF data[pos] < 251 THEN [ok |-> TRUE, val |-> data[pos], pos |-> pos + 1]
    ELSE IF data[pos] = 251 /\ pos + 2 <= Len(data)
         THEN [ok |-> TRUE, val |-> data[pos + 1] + 256 * data[pos + 2], pos |-> pos + 3]
    ELSE [ok |-> FALSE, val |-> 0, pos |-> pos]

\* Vec<u8>: varint length, then the bytes
VecEncode(v) == VarintEncode(Len(v)) \o v

VecDecode(data, pos) ==
    LET l == VarintDecode(data, pos) IN
    IF ~l.ok \/ l.pos + l.val - 1 > Len(data)
    THEN [ok |-> FALSE, val |-> <<>>, pos |-> pos]
    ELSE [ok |-> TRUE, val |-> Slice(data, l.pos, l.pos + l.val - 1), pos |-> l.pos + l.val]

\* [u8; N]: the N bytes, no length prefix
ArrayDecode(data, pos, n) ==
    IF pos + n - 1 > Len(data)
    THEN [ok |-> FALSE, val |-> <<>>, pos |-> pos]
    ELSE [ok |-> TRUE, val |-> Slice(data, pos, pos + n - 1), pos |-> pos + n]

(***************************************************************************)
(* UuidWrapper: encoded as the hyphenated lower-case string of the uuid.    *)
(***************************************************************************)
HexDigit(n) == IF n < 10 THEN 48 + n ELSE 87 + n

HexVal(c) ==
    IF c \in 48..57 THEN c - 48
    ELSE IF c \in 97..102 THEN c - 87
    ELSE IF c \in 65..70 THEN c - 55
    ELSE -1

\* 1-based positions of the hyphens in the 36-character form
HyphenAt == {9, 14, 19, 24}

\* positions counted as in the simple form, which has no hyphens
a_HexPosNoHyphens(b) == 2 * b - 1

\* index of the character holding the high hex digit of byte b (1..16)
HexPos(b) ==
    2 * b - 1 + (IF b > 4 THEN 1 ELSE 0) + (IF b > 6 THEN 1 ELSE 0)
              + (IF b > 8 THEN 1 ELSE 0) + (IF b > 10 THEN 1 ELSE 0)

\* hyphens that precede character position i
HyphensBefore(i) ==
    (IF i > 9 THEN 1 ELSE 0) + (IF i > 14 THEN 1 ELSE 0)
    + (IF i > 19 THEN 1 ELSE 0) + (IF i > 24 THEN 1 ELSE 0)

\* format!("{}", uuid)
UuidToString(u) ==
    [i \in 1..36 |->
        IF i \in HyphenAt THEN 45
        ELSE LET d == i - HyphensBefore(i) IN
             IF d % 2 = 1 THEN HexDigit(u[(d + 1) \div 2] \div 16)
             ELSE HexDigit(u[d \div 2] % 16)]

\* the text between "urn:uuid:" or braces, when s has one of those forms
UuidStripped(s) ==
    IF Len(s) = 45 /\ Slice(s, 1, 9) = <<117, 114, 110, 58, 117, 117, 105, 100, 58>>
    THEN Slice(s, 10, 45)
    ELSE IF Len(s) = 38 /\ s[1] = 123 /\ s[38] = 125 THEN Slice(s, 2, 37)
    ELSE s

\* Uuid::parse_str: the hyphenated form (bare, braced or as a urn) or the
\* simple form of 32 hex digits, in either case of the hex letters
UuidParseStr(s) ==
    LET t == UuidStripped(s) IN
    IF Len(t) = 36
       /\ \A i \in 1..36 : IF i \in HyphenAt THEN t[i] = 45 ELSE HexVal(t[i]) >= 0
    THEN [ok |-> TRUE,
          val |-> [b \in 1..UUID_LEN |-> 16 * HexVal(t[HexPos(b)]) + HexVal(t[HexPos(b) + 1])]]
    ELSE IF Len(s) = 32 /\ \A i \in 1..32 : HexVal(s[i]) >= 0
    THEN [ok |-> TRUE,
          val |-> [b \in 1..UUID_LEN |-> 16 * HexVal(s[2 * b - 1]) + HexVal(s[2 * b])]]
    ELSE [ok |-> FALSE, val |-> <<>>]

UuidWrapperEncode(u) == VecEncode(UuidToString(u))

UuidWrapperDecode(data, pos) ==
    LET s == VecDecode(data, pos) IN
    IF ~s.ok \/ \E i \in 1..Len(s.val) : s.val[i] > 127
    THEN [ok |-> FALSE, val |-> <<>>, pos |-> pos]
    ELSE LET u == UuidParseStr(s.val) IN
         IF u.ok THEN [ok |-> TRUE, val |-> u.val, pos |-> s.pos]
         ELSE [ok |-> FALSE, val |-> <<>>, pos |-> pos]

(***************************************************************************)
(* Frame: the four control-channel messages (byte level).                   *)
(***************************************************************************)
Initialize(pk) == [type |-> "Initialize", pk |-> pk]
PeerInitialize(pk, salt) == [type |-> "PeerInitialize", pk |-> pk, salt |-> salt]
Check(nonce, enc) == [type |-> "Check", nonce |-> nonce, enc |-> enc]
KeyAgreement(uuid) == [type |-> "KeyAgreement", uuid |-> uuid]

\* Frame::id
FrameId(f) ==
    CASE f.type = "Initialize" -> 0
      [] f.type = "PeerInitialize" -> 1
      [] f.type = "Check" -> 2
      [] f.type = "KeyAgreement" -> 3

\* #[derive(Encode)] for Frame: the variant index, then the fields in order
FrameEncode(f) ==
    CASE f.type = "Initialize" -> VarintEncode(0) \o VecEncode(f.pk)
      [] f.type = "PeerInitialize" -> VarintEncode(1) \o VecEncode(f.pk) \o VecEncode(f.salt)
      [] f.type = "Check" -> VarintEncode(2) \o f.nonce \o VecEncode(f.enc)
      [] f.type = "KeyAgreement" -> VarintEncode(3) \o UuidWrapperEncode(f.uuid)

NoFrame == [type |-> "None"]

\* decode_from_slice::<Frame>: trailing bytes of data are ignored
FrameDecode(data) ==
    LET v == VarintDecode(data, 1)
        bad == [ok |-> FALSE, frame |-> NoFrame]
    IN
    IF ~v.ok THEN bad
    ELSE IF v.val = 0 THEN
        LET a == VecDecode(data, v.pos) IN
        IF a.ok THEN [ok |-> TRUE, frame |-> Initialize(a.val)] ELSE bad
    ELSE IF v.val = 1 THEN
        LET a == VecDecode(data, v.pos) IN
        IF ~a.ok THEN bad
        ELSE LET b == VecDecode(data, a.pos) IN
             IF b.ok THEN [ok |-> TRUE, frame |-> PeerInitialize(a.val, b.val)] ELSE bad
    ELSE IF v.val = 2 THEN
        LET a == ArrayDecode(data, v.pos, NONCE_LEN) IN
        IF ~a.ok THEN bad
        ELSE LET b == VecDecode(data, a.pos) IN
             IF b.ok THEN [ok |-> TRUE, frame |-> Check(a.val, b.val)] ELSE bad
    ELSE IF v.val = 3 THEN
        LET a == UuidWrapperDecode(data, v.pos) IN
        IF a.ok THEN [ok |-> TRUE, frame |-> KeyAgreement(a.val)] ELSE bad
    ELSE bad

\* the tag byte ConnectionWriter::write_frame puts on the wire
WriteTag(f) == 0

\* a writer whose length field leaves out the variant byte of the payload
WriteFrameShortLength(f) ==
    LET encoded == FrameEncode(f) IN
    <<WriteTag(f)>> \o ToBE8(Len(encoded) - 1) \o encoded

\* ConnectionWriter::write_frame: tag, 8-byte big-endian length, payload
WriteFrame(f) ==
    LET encoded == FrameEncode(f) IN
    <<WriteTag(f)>> \o ToBE8(Len(encoded)) \o encoded

\* get_u8 / get_usize / get_bytes: the cursor position after the call, or
\* None when too few bytes remain (src is the whole slice, pos the cursor,
\* counted in bytes already consumed)
Remaining(src, pos) == Len(src) - pos

GetUsize(src, pos) ==
    IF Remaining(src, pos) < USIZE_LENGTH
    THEN [some |-> FALSE, val |-> <<>>, pos |-> pos]
    ELSE [some |-> TRUE, val |-> Slice(src, pos + 1, pos + USIZE_LENGTH),
          pos |-> pos + USIZE_LENGTH]

GetBytes(src, pos, length) ==
    IF Remaining(src, pos) < length
    THEN [some |-> FALSE, val |-> <<>>, pos |-> pos]
    ELSE [some |-> TRUE, val |-> Slice(src, pos + 1, pos + length), pos |-> pos + length]

\* the tag bytes Frame::parse accepts
KnownTags == 0..3

\* a parse that reports an under-run of the length field or of the payload
\* as an error instead of Ok(None)
FrameParseIncompleteIsError(src) ==
    IF Len(src) = 0 THEN [kind |-> "none", frame |-> NoFrame, pos |-> 0]
    ELSE IF src[1] \notin KnownTags THEN [kind |-> "none", frame |-> NoFrame, pos |-> 1]
    ELSE LET l == GetUsize(src, 1) IN
         IF ~l.some THEN [kind |-> "err", frame |-> NoFrame, pos |-> l.pos]
         ELSE LET d == GetBytes(src, l.pos, FromBE8(l.val)) IN
              IF ~d.some THEN [kind |-> "err", frame |-> NoFrame, pos |-> d.pos]
              ELSE LET r == FrameDecode(d.val) IN
                   IF r.ok THEN [kind |-> "frame", frame |-> r.frame, pos |-> d.pos]
                   ELSE [kind |-> "err", frame |-> NoFrame, pos |-> d.pos]

\* a parse that reports an unknown tag as an error instead of Ok(None)
a_FrameParseUnknownTagIsError(src) ==
    IF Len(src) > 0 /\ src[1] \notin KnownTags
    THEN [kind |-> "err", frame |-> NoFrame, pos |-> 1]
    ELSE IF Len(src) = 0 THEN [kind |-> "none", frame |-> NoFrame, pos |-> 0]
    ELSE LET l == GetUsize(src, 1) IN
         IF ~l.some THEN [kind |-> "none", frame |-> NoFrame, pos |-> l.pos]
         ELSE LET d == GetBytes(src, l.pos, FromBE8(l.val)) IN
              IF ~d.some THEN [kind |-> "none", frame |-> NoFrame, pos |-> d.pos]
              ELSE LET r == FrameDecode(d.val) IN
                   IF r.ok THEN [kind |-> "frame", frame |-> r.frame, pos |-> d.pos]
                   ELSE [kind |-> "err", frame |-> NoFrame, pos |-> d.pos]

\* a parse that skips a first byte that is no tag and parses what follows
a_FrameParseSkipsUnknownTag(src) ==
    LET off == IF Len(src) > 0 /\ src[1] \notin KnownTags THEN 1 ELSE 0
        rest == SubSeq(src, off + 1, Len(src))
    IN  IF Len(rest) = 0 THEN [kind |-> "none", frame |-> NoFrame, pos |-> off]
        ELSE IF rest[1] \notin KnownTags THEN [kind |-> "none", frame |-> NoFrame, pos |-> off + 1]
        ELSE LET l == GetUsize(rest, 1) IN
             IF ~l.some THEN [kind |-> "none", frame |-> NoFrame, pos |-> off + l.pos]
             ELSE LET d == GetBytes(rest, l.pos, FromBE8(l.val)) IN
                  IF ~d.some THEN [kind |-> "none", frame |-> NoFrame, pos |-> off + d.pos]
                  ELSE LET r == FrameDecode(d.val) IN
                       IF r.ok THEN [kind |-> "frame", frame |-> r.frame, pos |-> off + d.pos]
                       ELSE [kind |-> "err", frame |-> NoFrame, pos |-> off + d.pos]

\* Frame::parse on a cursor at position 0 of src.
\*   kind = "frame": Ok(Some(frame));  "none": Ok(None);  "err": Err(_)
\*   pos: the cursor position on return
FrameParse(src) ==
    IF Len(src) = 0 THEN [kind |-> "none", frame |-> NoFrame, pos |-> 0]
    ELSE IF src[1] \notin KnownTags THEN [kind |-> "none", frame |-> NoFrame, pos |-> 1]
    ELSE LET l == GetUsize(src, 1) IN
         IF ~l.some THEN [kind |-> "none", frame |-> NoFrame, pos |-> l.pos]
         ELSE LET d == GetBytes(src, l.pos, FromBE8(l.val)) IN
              IF ~d.some THEN [kind |-> "none", frame |-> NoFrame, pos |-> d.pos]
              ELSE LET r == FrameDecode(d.val) IN
                   IF r.ok THEN [kind |-> "frame", frame |-> r.frame, pos |-> d.pos]
                   ELSE [kind |-> "err", frame |-> NoFrame, pos |-> d.pos]

(***************************************************************************)
(* Values the frames of the model are built from.                           *)
(***************************************************************************)
\* two 12-byte nonces
NonceA == [i \in 1..NONCE_LEN |-> 0]
NonceB == [i \in 1..NONCE_LEN |-> IF i = 1 THEN 3 ELSE 255]
Nonces == {NonceA, NonceB}

\* uuids: the nil uuid and two version-4 uuids
UuidNil == [i \in 1..UUID_LEN |-> 0]
UuidA == <<1, 35, 69, 103, 137, 171, 77, 239, 129, 0, 3, 255, 16, 32, 48, 64>>
UuidB == <<254, 220, 186, 152, 118, 84, 67, 33, 176, 10, 9, 8, 7, 6, 5, 4>>
Uuids == {UuidNil, UuidA, UuidB}

DataVecs == SeqsUpTo(DataBytes, MaxDataLen)

\* every frame value of the bounded domain
CodecFrames ==
    {Initialize(d) : d \in DataVecs}
    \cup {PeerInitialize(d, e) : d \in DataVecs, e \in DataVecs}
    \cup {Check(n, d) : n \in Nonces, d \in DataVecs}
    \cup {KeyAgreement(u) : u \in Uuids}

VARIABLES
    \* --- codec: one frame written and parsed back
    cd_pc,        \* "start", "written", "parsed"
    cd_frame,     \* the frame handed to write_frame
    cd_bytes,     \* the bytes write_frame emitted
    cd_input,     \* the slice handed to Frame::parse
    cd_result,    \* what Frame::parse returned, with the cursor position
    \* --- framer: read_frame over a stream
    fr_pc,        \* "idle", "parse", "read": where the reader task is
    fr_frames,    \* the frames the peer writes, in order
    fr_wire,      \* bytes written by the peer and not yet read from the socket
    fr_closed,    \* the peer has closed its end
    fr_buffer,    \* ConnectionReader.buffer
    fr_delivered, \* number of bytes the socket has delivered so far
    fr_zero,      \* a socket read of the current read_frame call returned 0
    fr_reads,     \* socket reads of the current call that returned bytes: 0, 1, 2 (or more)
    fr_returned,  \* what the read_frame calls so far returned, in order
    \* --- handshake: the network between one client and the relay
    net,          \* "reliable": only the two parties act; "hostile": frames may
                  \* be injected or altered and the client may close early
    hostile_left, \* hostile steps still allowed
    c2r,          \* frames in flight, client to relay, oldest first
    r2c,          \* frames in flight, relay to client, oldest first
    c2r_closed,   \* the client side of the stream is closed
    wire_log,     \* every frame a party has written, in the order written
    \* --- handshake: the client (moshpit)
    c_handler,    \* "FrameReader" or "MpsFrameHandler": the read task's handler
    c_epk,        \* the ephemeral private key generated by run
    c_run_pc,     \* run: "spawn_read", "spawn_write", "send_init", "wait", "udp"
    c_rd_pc,      \* read task: "unspawned", "read1", "read2", "done", "failed"
    c_rd_err,     \* the error the read task ended with
    c_rcvd,       \* frames the read task has read
    c_wr_pc,      \* write task: "unspawned", "recv"
    c_tx,         \* the frame queue from run and the read task to the write task
    c_tx_udp,     \* the UdpState queue from the read task to run
    c_okm,        \* the keys the read task expanded, by info label
    c_seal_key,   \* the key the Check frame was sealed with
    c_seen_key,   \* run has received UdpState::Key
    c_uuid,       \* the session id run received
    \* --- handshake: the relay (moshpits), one connection
    r_pc,         \* "read1", "read2", "wait", "returned", "promoted", "failed"
    r_err,        \* the error handle_connection returned
    r_rcvd,       \* frames handle_connection has read
    r_epk,        \* the ephemeral private key generated by handle_initialize
    r_salt,       \* the salt generated by handle_initialize
    r_peer_pk,    \* the public key of the Initialize frame
    r_okm,        \* the keys handle_initialize expanded, by info label
    r_rnk,        \* Handler.rnk: None or the opening key
    r_check,      \* the Check frame handle_check was given
    r_id,         \* the session id handle_check generated
    r_tx_state,   \* the senders of the relay's UdpState queue: "alive", "dropped"
    r_state_q,    \* the relay's UdpState queue
    r_key_bytes,  \* handle_connection's local key_bytes
    r_uuid,       \* handle_connection's local uuid
    r_result,     \* what handle_connection returned: None or <<key, uuid>>
    \* --- datagram codec: UdpSender::encrypt, then EncryptedFrame::parse
    en_pc,        \* "off", "start", "sent", "parsed"
    en_id,        \* UdpSender.id
    en_data,      \* the payload given to encrypt
    en_rnk,       \* the sender's AEAD key
    en_hmac,      \* the sender's HMAC key
    en_packet,    \* the packet encrypt returned
    en_input,     \* the bytes given to EncryptedFrame::parse
    en_keys,      \* the <<hmac, rnk>> keys given to EncryptedFrame::parse
    en_result,    \* what EncryptedFrame::parse returned
    \* --- the relay's UdpReader tasks on the one UDP socket
    ud_n,         \* number of promoted sessions, each with a UdpReader task
    ud_socket,    \* datagrams the socket holds, oldest first
    ud_sent,      \* datagrams sent so far
    ud_buf,       \* per reader: UdpReader.buf
    ud_alive,     \* per reader: handle_read is still in its loop
    ud_log,       \* per reader: what handle_bytes did with each datagram
    \* --- the relay's accept loop and the tasks it spawned
    ac_loop,      \* run's loop: "accept", or "ended"
    ac_conns,     \* per accepted connection: its stream, Handler and task
    \* --- the write task: FrameSender::handle_tx over a ConnectionWriter
    wt_pc,        \* "recv", "tag", "len", "payload", "flush", "done", "failed"
    wt_rx,        \* FrameSender.rx: frames sent on the queue and not yet received
    wt_senders,   \* the senders of the queue: "alive", "dropped"
    wt_enq,       \* every frame sent on the queue so far, in the order sent
    wt_cur,       \* the frame write_frame is writing
    wt_out,       \* the bytes the writer has accepted, in order
    wt_flushed,   \* how many of them a flush has pushed to the socket
    wt_erred,     \* a write or a flush has returned an error
    \* --- the datagram send task: UdpSender::handle_send
    sn_pc,        \* "recv", "done"
    sn_key,       \* UdpSender.id, rnk and hmac
    sn_rx,        \* UdpSender.rx: payloads queued by the caller
    sn_drawn,     \* the nonces the key's random generator has produced, in order
    sn_packets    \* the packets given to socket.send, in order

cdVars == <<cd_pc, cd_frame, cd_bytes, cd_input, cd_result>>
frVars == <<fr_pc, fr_frames, fr_wire, fr_closed, fr_buffer, fr_delivered,
             fr_zero, fr_reads, fr_returned>>
netVars == <<net, hostile_left, c2r, r2c, c2r_closed, wire_log>>
clientVars == <<c_handler, c_epk, c_run_pc, c_rd_pc, c_rd_err, c_rcvd, c_wr_pc, c_tx,
                c_tx_udp, c_okm, c_seal_key, c_seen_key, c_uuid>>
relayVars == <<r_pc, r_err, r_rcvd, r_epk, r_salt, r_peer_pk, r_okm, r_rnk, r_check,
               r_id, r_tx_state, r_state_q, r_key_bytes, r_uuid, r_result>>
hsVars == <<netVars, clientVars, relayVars>>
enVars == <<en_pc, en_id, en_data, en_rnk, en_hmac, en_packet, en_input, en_keys, en_result>>
udVars == <<ud_n, ud_socket, ud_sent, ud_buf, ud_alive, ud_log>>
dgVars == <<enVars, udVars>>
acVars == <<ac_loop, ac_conns>>
wtVars == <<wt_pc, wt_rx, wt_senders, wt_enq, wt_cur, wt_out, wt_flushed, wt_erred>>
snVars == <<sn_pc, sn_key, sn_rx, sn_drawn, sn_packets>>
vars == <<cdVars, frVars, hsVars, dgVars, acVars, wtVars, snVars>>

NoResult == [kind |-> "unset", frame |-> NoFrame, pos |-> 0]

\* the state of a part of the model that a specification does not exercise
CodecIdle ==
    /\ cd_pc = "off" /\ cd_frame = NoFrame /\ cd_bytes = <<>>
    /\ cd_input = <<>> /\ cd_result = NoResult

FramerIdle ==
    /\ fr_pc = "off" /\ fr_frames = <<>> /\ fr_wire = <<>> /\ fr_closed = FALSE
    /\ fr_buffer = <<>> /\ fr_delivered = 0 /\ fr_zero = FALSE /\ fr_reads = 0 /\ fr_returned = <<>>

\* Option<T>
None == <<>>
Some(v) == <<v>>

\* the handshake variables of a specification that runs no handshake
HandshakeIdle ==
    /\ net = "off" /\ hostile_left = 0 /\ c2r = <<>> /\ r2c = <<>>
    /\ c2r_closed = FALSE /\ wire_log = <<>>
    /\ c_handler = "off" /\ c_epk = 0 /\ c_run_pc = "off" /\ c_rd_pc = "off"
    /\ c_rd_err = None /\ c_rcvd = <<>> /\ c_wr_pc = "off" /\ c_tx = <<>>
    /\ c_tx_udp = <<>> /\ c_okm = <<>> /\ c_seal_key = None
    /\ c_seen_key = FALSE /\ c_uuid = None
    /\ r_pc = "off" /\ r_err = None /\ r_rcvd = <<>> /\ r_epk = 0 /\ r_salt = <<>>
    /\ r_peer_pk = <<>> /\ r_okm = <<>> /\ r_rnk = None /\ r_check = None
    /\ r_id = None /\ r_tx_state = "off" /\ r_state_q = <<>>
    /\ r_key_bytes = None /\ r_uuid = None /\ r_result = None

AcceptIdle == ac_loop = "off" /\ ac_conns = <<>>

WriterIdle ==
    /\ wt_pc = "off" /\ wt_rx = <<>> /\ wt_senders = "off" /\ wt_enq = <<>>
    /\ wt_cur = NoFrame /\ wt_out = <<>> /\ wt_flushed = 0 /\ wt_erred = FALSE

SenderIdle ==
    /\ sn_pc = "off" /\ sn_key = <<>> /\ sn_rx = <<>> /\ sn_drawn = <<>> /\ sn_packets = <<>>

\* the datagram variables of a specification that sends no datagram
DatagramIdle ==
    /\ en_pc = "off" /\ en_id = <<>> /\ en_data = <<>> /\ en_rnk = 0 /\ en_hmac = 0
    /\ en_packet = <<>> /\ en_input = <<>> /\ en_keys = <<>> /\ en_result = <<>>
    /\ ud_n = 0 /\ ud_socket = <<>> /\ ud_sent = 0
    /\ ud_buf = <<>> /\ ud_alive = <<>> /\ ud_log = <<>>

(***************************************************************************)
(* SpecCodec: write_frame, then Frame::parse of the bytes or of a prefix.   *)
(***************************************************************************)
CodecInit ==
    /\ cd_pc = "start"
    /\ cd_frame \in CodecFrames
    /\ cd_bytes = <<>>
    /\ cd_input = <<>>
    /\ cd_result = NoResult
    /\ FramerIdle
    /\ HandshakeIdle
    /\ DatagramIdle
    /\ AcceptIdle
    /\ WriterIdle /\ SenderIdle

\* ConnectionWriter::write_frame(frame)
CodecWrite ==
    /\ cd_pc = "start"
    /\ cd_bytes' = WriteFrame(cd_frame)
    /\ cd_pc' = "written"
    /\ UNCHANGED <<cd_frame, cd_input, cd_result, frVars, acVars, hsVars, dgVars, wtVars, snVars>>

\* Frame::parse on all the bytes written
CodecParseWhole ==
    /\ cd_pc = "written"
    /\ cd_input' = cd_bytes
    /\ cd_result' = FrameParse(cd_bytes)
    /\ cd_pc' = "parsed"
    /\ UNCHANGED <<cd_frame, cd_bytes, frVars, acVars, hsVars, dgVars, wtVars, snVars>>

\* Frame::parse on a strict prefix of the bytes written
CodecParsePrefix ==
    /\ cd_pc = "written"
    /\ \E k \in 0..(Len(cd_bytes) - 1) :
        /\ cd_input' = SubSeq(cd_bytes, 1, k)
        /\ cd_result' = FrameParse(SubSeq(cd_bytes, 1, k))
    /\ cd_pc' = "parsed"
    /\ UNCHANGED <<cd_frame, cd_bytes, frVars, acVars, hsVars, dgVars, wtVars, snVars>>

CodecNext == CodecWrite \/ CodecParseWhole \/ CodecParsePrefix

SpecCodec == CodecInit /\ [][CodecNext]_vars

(***************************************************************************)
(* SpecFramer: ConnectionReader::read_frame (and Connection::read_frame,    *)
(* the same algorithm) over a byte stream the socket delivers in chunks.    *)
(***************************************************************************)
\* a payload of n bytes whose value is also a tag value
Pat(n) == [i \in 1..n |-> 3]

\* one frame of each variant
FramerFrames ==
    {Initialize(Pat(MaxDataLen)),
     PeerInitialize(Pat(MaxDataLen), <<>>),
     Check(NonceB, Pat(MaxDataLen)),
     KeyAgreement(UuidA)}

\* the bytes of the frames fs written one after the other
RECURSIVE WireOf(_)
WireOf(fs) == IF fs = <<>> THEN <<>> ELSE WriteFrame(Head(fs)) \o WireOf(Tail(fs))

\* bytes that may follow the frames: nothing, an unknown tag, or a known
\* tag and a length with a payload bincode cannot decode (variant 9)
JunkTails == {<<>>, <<200>>, <<0>> \o ToBE8(1) \o <<9>>}

FramerInit ==
    /\ fr_pc = "idle"
    /\ fr_frames \in UNION {[1..k -> FramerFrames] : k \in 0..MaxFrames}
    /\ \E junk \in JunkTails : fr_wire = WireOf(fr_frames) \o junk
    /\ fr_closed = FALSE
    /\ fr_buffer = <<>>
    /\ fr_delivered = 0
    /\ fr_zero = FALSE
    /\ fr_reads = 0
    /\ fr_returned = <<>>
    /\ CodecIdle
    /\ HandshakeIdle
    /\ DatagramIdle
    /\ AcceptIdle
    /\ WriterIdle /\ SenderIdle

\* what a read_frame call returned
\*   kind: "frame" Ok(Some(frame)), "eof" Ok(None), "err" Err(err)
\*   zero: a zero-length socket read preceded the return, within the call
\*   held: bytes left in the buffer at a return that follows a zero-length
\*         read; -1 (not recorded) at any other return
Returned(kind, frame, err) ==
    [kind |-> kind, frame |-> frame, err |-> err, zero |-> fr_zero, held |-> -1]

\* BytesMut::advance(len): drop the first len bytes
a_BufferAdvanceAll(buffer, len) == <<>>
a_BufferAdvancePayloadOnly(buffer, len) ==
    SubSeq(buffer, len - (1 + USIZE_LENGTH) + 1, Len(buffer))
BufferAdvance(buffer, len) == SubSeq(buffer, len + 1, Len(buffer))

\* read_buf(&mut self.buffer): the bytes read are appended to the buffer
a_BufferOverwrite(buffer, chunk) == chunk
BufferAppend(buffer, chunk) == buffer \o chunk

\* read_frame after a zero-length read: Ok(None) on an empty buffer,
\* otherwise Err(ConnectionResetByPeer)
a_ZeroReadAlwaysEof(buffer) == [kind |-> "eof", err |-> "none"]
ZeroReadResult(buffer) ==
    IF buffer = <<>> THEN [kind |-> "eof", err |-> "none"]
    ELSE [kind |-> "err", err |-> "ConnectionResetByPeer"]

\* the caller invokes read_frame; a caller stops at the first error
ReadFrameCall ==
    /\ fr_pc = "idle"
    /\ Len(fr_returned) <= MaxFrames
    /\ \A i \in 1..Len(fr_returned) : fr_returned[i].kind # "err"
    /\ fr_pc' = "parse"
    /\ fr_zero' = FALSE
    /\ fr_reads' = 0
    /\ UNCHANGED <<fr_frames, fr_wire, fr_closed, fr_buffer, fr_delivered, fr_returned, cdVars, acVars, hsVars, dgVars, wtVars, snVars>>

\* the top of read_frame's loop: parse_frame on the buffer
ParseFrame ==
    /\ fr_pc = "parse"
    /\ LET r == FrameParse(fr_buffer) IN
       \/ /\ r.kind = "frame"
          /\ fr_buffer' = BufferAdvance(fr_buffer, r.pos)
          /\ fr_returned' = Append(fr_returned,
                                   Returned("frame", r.frame, "none"))
          /\ fr_pc' = "idle"
       \/ /\ r.kind = "none"
          /\ fr_pc' = "read"
          /\ UNCHANGED <<fr_buffer, fr_returned>>
       \/ /\ r.kind = "err"
          /\ fr_returned' = Append(fr_returned,
                                   Returned("err", NoFrame, "Decode"))
          /\ fr_pc' = "idle"
          /\ UNCHANGED fr_buffer
    /\ UNCHANGED <<fr_frames, fr_wire, fr_closed, fr_delivered, fr_zero, fr_reads, cdVars, acVars, hsVars, dgVars, wtVars, snVars>>

\* read_buf returns n > 0 bytes: back to the top of the loop
SocketRead ==
    /\ fr_pc = "read"
    /\ \E n \in 1..Len(fr_wire) :
        /\ fr_buffer' = BufferAppend(fr_buffer, SubSeq(fr_wire, 1, n))
        /\ fr_wire' = SubSeq(fr_wire, n + 1, Len(fr_wire))
        /\ fr_delivered' = fr_delivered + n
    /\ fr_reads' = IF fr_reads < 2 THEN fr_reads + 1 ELSE 2
    /\ fr_pc' = "parse"
    /\ UNCHANGED <<fr_frames, fr_closed, fr_zero, fr_returned, cdVars, acVars, hsVars, dgVars, wtVars, snVars>>

\* read_buf returns 0: the peer has closed and every byte was delivered
SocketReadZero ==
    /\ fr_pc = "read"
    /\ fr_closed /\ fr_wire = <<>>
    /\ fr_zero' = TRUE
    /\ LET z == ZeroReadResult(fr_buffer) IN
       fr_returned' = Append(fr_returned,
           [kind |-> z.kind, frame |-> NoFrame, err |-> z.err, zero |-> TRUE,
            held |-> Len(fr_buffer)])
    /\ fr_pc' = "idle"
    /\ UNCHANGED <<fr_frames, fr_wire, fr_closed, fr_buffer, fr_delivered, fr_reads, cdVars, acVars, hsVars, dgVars, wtVars, snVars>>

\* the peer closes its end; the bytes it had not written are never sent
PeerClose ==
    /\ ~fr_closed
    /\ fr_pc # "off"
    /\ fr_closed' = TRUE
    /\ fr_wire' = <<>>
    /\ UNCHANGED <<fr_pc, fr_frames, fr_buffer, fr_delivered, fr_zero, fr_reads, fr_returned, cdVars, acVars, hsVars, dgVars, wtVars, snVars>>

FramerNext == ReadFrameCall \/ ParseFrame \/ SocketRead \/ SocketReadZero \/ PeerClose

SpecFramer == FramerInit /\ [][FramerNext]_vars

(***************************************************************************)
(* SpecFramerJunk: read_frame over a stream in which one byte that is no    *)
(* tag (200) stands before, between or after the frames the peer writes.    *)
(***************************************************************************)
JunkInit ==
    /\ fr_pc = "idle"
    /\ fr_frames \in UNION {[1..k -> FramerFrames] : k \in 0..MaxFrames}
    /\ \E k \in 0..Len(fr_frames) :
        fr_wire = WireOf(SubSeq(fr_frames, 1, k)) \o <<200>>
                  \o WireOf(SubSeq(fr_frames, k + 1, Len(fr_frames)))
    /\ fr_closed = FALSE
    /\ fr_buffer = <<>>
    /\ fr_delivered = 0
    /\ fr_zero = FALSE
    /\ fr_reads = 0
    /\ fr_returned = <<>>
    /\ CodecIdle /\ HandshakeIdle /\ DatagramIdle
    /\ AcceptIdle /\ WriterIdle /\ SenderIdle

SpecFramerJunk == JunkInit /\ [][FramerNext]_vars

(***************************************************************************)
(* SpecConnection: Connection::read_frame over the one-variant Frame of     *)
(* libmoshpit/src/frame.rs, whose get_usize and get_bytes report a buffer   *)
(* that ends early as Err(Incomplete).                                      *)
(***************************************************************************)
\* decode_from_slice::<Frame> of the enum whose one variant is Initialize
OldFrameDecode(data) ==
    LET v == VarintDecode(data, 1)
        bad == [ok |-> FALSE, frame |-> NoFrame]
    IN  IF ~v.ok \/ v.val # 0 THEN bad
        ELSE LET a == VecDecode(data, v.pos) IN
             IF a.ok THEN [ok |-> TRUE, frame |-> Initialize(a.val)] ELSE bad

\* Frame::initialize(data): the tag 0, the length and the encoded frame
OldFrameInitialize(data) ==
    LET encoded == FrameEncode(Initialize(data)) IN
    <<0>> \o ToBE8(Len(encoded)) \o encoded

\* what Frame::parse returns, with the error it returns
ParseResult(kind, frame, pos, err) ==
    [kind |-> kind, frame |-> frame, pos |-> pos, err |-> err]

\* Frame::parse of libmoshpit/src/frame.rs on a cursor at position 0 of src
OldFrameParse(src) ==
    IF Len(src) = 0 THEN ParseResult("none", NoFrame, 0, "none")
    ELSE IF src[1] # 0 THEN ParseResult("none", NoFrame, 1, "none")
    ELSE IF Remaining(src, 1) < USIZE_LENGTH
    THEN ParseResult("err", NoFrame, 1, "Incomplete")
    ELSE LET length == FromBE8(Slice(src, 2, 1 + USIZE_LENGTH)) IN
         IF Remaining(src, 1 + USIZE_LENGTH) < length
         THEN ParseResult("err", NoFrame, 1 + USIZE_LENGTH, "Incomplete")
         ELSE LET r == OldFrameDecode(Slice(src, 2 + USIZE_LENGTH, 1 + USIZE_LENGTH + length)) IN
              IF r.ok THEN ParseResult("frame", r.frame, 1 + USIZE_LENGTH + length, "none")
              ELSE ParseResult("err", NoFrame, 1 + USIZE_LENGTH + length, "Decode")

\* the frames a peer of a Connection writes
ConnFrames == {Initialize(d) : d \in DataVecs}

RECURSIVE ConnWireOf(_)
ConnWireOf(fs) ==
    IF fs = <<>> THEN <<>> ELSE OldFrameInitialize(Head(fs).pk) \o ConnWireOf(Tail(fs))

ConnInit ==
    /\ fr_pc = "idle"
    /\ fr_frames \in UNION {[1..k -> ConnFrames] : k \in 0..MaxFrames}
    /\ fr_wire = ConnWireOf(fr_frames)
    /\ fr_closed = FALSE
    /\ fr_buffer = <<>>
    /\ fr_delivered = 0
    /\ fr_zero = FALSE
    /\ fr_reads = 0
    /\ fr_returned = <<>>
    /\ CodecIdle
    /\ HandshakeIdle
    /\ DatagramIdle
    /\ AcceptIdle
    /\ WriterIdle /\ SenderIdle

\* the top of Connection::read_frame's loop: parse_frame on the buffer;
\* `self.parse_frame()?` returns whatever error Frame::parse returned
ConnParseFrame ==
    /\ fr_pc = "parse"
    /\ LET r == OldFrameParse(fr_buffer) IN
       \/ /\ r.kind = "frame"
          /\ fr_buffer' = BufferAdvance(fr_buffer, r.pos)
          /\ fr_returned' = Append(fr_returned, Returned("frame", r.frame, "none"))
          /\ fr_pc' = "idle"
       \/ /\ r.kind = "none"
          /\ fr_pc' = "read"
          /\ UNCHANGED <<fr_buffer, fr_returned>>
       \/ /\ r.kind = "err"
          /\ fr_returned' = Append(fr_returned, Returned("err", NoFrame, r.err))
          /\ fr_pc' = "idle"
          /\ UNCHANGED fr_buffer
    /\ UNCHANGED <<fr_frames, fr_wire, fr_closed, fr_delivered, fr_zero, fr_reads, cdVars, acVars, hsVars, dgVars, wtVars, snVars>>

ConnNext == ReadFrameCall \/ ConnParseFrame \/ SocketRead \/ SocketReadZero \/ PeerClose

SpecConnection == ConnInit /\ [][ConnNext]_vars

(***************************************************************************)
(* SpecConnCodec: the two encoders of the one-variant Frame,                *)
(* Connection::write_frame and Frame::initialize, and Frame::parse of the   *)
(* bytes of either, whole or cut short.                                     *)
(***************************************************************************)
\* Connection::write_frame(Frame::Initialize(data)): the tag 0, data.len()
\* as the length, and the encoding of data (a Vec<u8>, not the Frame)
ConnWriteFrame(f) == <<0>> \o ToBE8(Len(f.pk)) \o VecEncode(f.pk)

ConnCodecInit ==
    /\ cd_pc = "start"
    /\ cd_frame \in ConnFrames
    /\ cd_bytes = <<>>
    /\ cd_input = <<>>
    /\ cd_result = NoResult
    /\ FramerIdle /\ HandshakeIdle /\ DatagramIdle
    /\ AcceptIdle /\ WriterIdle /\ SenderIdle

\* Connection::write_frame(frame)
ConnCodecWrite ==
    /\ cd_pc = "start"
    /\ cd_bytes' = ConnWriteFrame(cd_frame)
    /\ cd_pc' = "written"
    /\ UNCHANGED <<cd_frame, cd_input, cd_result, frVars, hsVars, dgVars, acVars, wtVars, snVars>>

\* Frame::initialize(data)
ConnCodecInitialize ==
    /\ cd_pc = "start"
    /\ cd_bytes' = OldFrameInitialize(cd_frame.pk)
    /\ cd_pc' = "initialized"
    /\ UNCHANGED <<cd_frame, cd_input, cd_result, frVars, hsVars, dgVars, acVars, wtVars, snVars>>

\* Frame::parse on the bytes, or on a prefix of them
ConnCodecParse ==
    /\ cd_pc \in {"written", "initialized"}
    /\ \E k \in 0..Len(cd_bytes) :
        /\ cd_input' = SubSeq(cd_bytes, 1, k)
        /\ cd_result' = OldFrameParse(SubSeq(cd_bytes, 1, k))
    /\ cd_pc' = "parsed"
    /\ UNCHANGED <<cd_frame, cd_bytes, frVars, hsVars, dgVars, acVars, wtVars, snVars>>

ConnCodecNext == ConnCodecWrite \/ ConnCodecInitialize \/ ConnCodecParse

SpecConnCodec == ConnCodecInit /\ [][ConnCodecNext]_vars

(***************************************************************************)
(* The handshake.  Frames travel whole between the two parties; the bytes   *)
(* of a frame are the subject of SpecCodec and SpecFramer.                  *)
(*                                                                          *)
(* X25519 is exponentiation modulo a small prime, HKDF and the AEAD are     *)
(* symbolic: a key is the term it was derived from, a ciphertext names the  *)
(* key, nonce and plaintext it was sealed from, and flip counts the bits    *)
(* altered since sealing.                                                   *)
(***************************************************************************)
MaxHostile == 1

PrivKeys == {2, 3}
Salts == {<<7>>, <<9>>}
SessionIds == {UuidA, UuidB}
Yoda == "Yoda"

RECURSIVE Pow(_, _)
Pow(b, e) == IF e = 0 THEN 1 ELSE b * Pow(b, e - 1)

\* EphemeralPrivateKey::compute_public_key, as bytes
X25519Public(sk) == <<Pow(5, sk) % 23>>

\* agree_ephemeral: Err(Unspecified) for a peer key of the wrong length or of
\* low order, else the key material handed to the closure
X25519Agree(sk, pk) ==
    IF Len(pk) = 1 /\ pk[1] % 23 # 0
    THEN [ok |-> TRUE, km |-> Pow(pk[1], sk) % 23]
    ELSE [ok |-> FALSE, km |-> 0]

\* Salt::extract and Prk::expand(..).fill(..)
HkdfExtract(salt, km) == <<salt, km>>
HkdfExpand(prk, info) == <<prk, info>>
Derived(info, key) == [info |-> info, key |-> key]

\* [0u8; 32]
ZeroKey == <<<<<<>>, 0>>, "">>

\* RandomizedNonceKey::seal_in_place_append_tag
Seal(key, nonce, pt) == [key |-> key, nonce |-> nonce, pt |-> pt, flip |-> 0]

\* RandomizedNonceKey::open_in_place
a_OpenIgnoresTag(key, nonce, ct) ==
    IF ct.key = key /\ ct.nonce = nonce THEN Some(ct.pt) ELSE None
Open(key, nonce, ct) ==
    IF ct.key = key /\ ct.nonce = nonce /\ ct.flip = 0 THEN Some(ct.pt) ELSE None

\* decrypted_data == b"Yoda"
a_MarkerAlwaysMatches(pt) == TRUE
MarkerMatches(pt) == pt = Yoda

\* UdpState
a_UdpKeyZero(k) == [tag |-> "Key", val |-> ZeroKey]
UdpKey(k) == [tag |-> "Key", val |-> k]
UdpHmacKey(k) == [tag |-> "HmacKey", val |-> k]
UdpUuid(u) == [tag |-> "Uuid", val |-> u]

\* the session id of a KeyAgreement frame as the reader decodes it from the
\* string the writer encoded (UuidWrapper's Encode, then its Decode)
UuidReadBack == [u \in SessionIds |-> UuidWrapperDecode(UuidWrapperEncode(u), 1).val]

UuidAsRead(u) == UuidReadBack[u]

\* read_buf(&mut self.buffer).await completes when the stream holds bytes or
\* the peer has closed it; nothing else ends the wait
a_ReadBufTimesOut(stream, closed) == TRUE
ReadBufReady(stream, closed) == stream # <<>> \/ closed

\* the live senders of each of the client's two queues: the handle run keeps
\* (tx, tx_udp_state) and the clone moved into the read task (tx_c,
\* tx_udp_state_c), which is dropped when that task ends
a_ClientSendersCloneOnly(rd_pc) ==
    IF rd_pc \in {"unspawned", "read1", "read2"} THEN 1 ELSE 0
ClientSenders(rd_pc) ==
    1 + (IF rd_pc \in {"unspawned", "read1", "read2"} THEN 1 ELSE 0)

\* UnboundedReceiver::recv completes when the queue holds a message, or with
\* None when it is empty and every sender is dropped
RecvReady(q, senders) == q # <<>> \/ senders = 0

\* UnboundedReceiver::recv on a non-empty queue
a_RecvKeepsMessage(q) == [msg |-> Head(q), rest |-> q]
Recv(q) == [msg |-> Head(q), rest |-> Tail(q)]

\* the UdpState::Uuid arm of run's loop ends the loop
a_WaitNeverBreaks(msg) == FALSE
WaitBreaks(msg) == msg.tag = "Uuid"

\* the relay drops the Handler, and with it the stream, when the task that
\* runs handle_connection ends
R2cClosed == r_pc \in {"failed", "promoted"}

Types(frames) == [i \in 1..Len(frames) |-> frames[i].type]
Logged(from, frame, rcvd) == [from |-> from, frame |-> frame, seen |-> Types(rcvd)]

HsInit ==
    /\ net \in {"reliable", "hostile"}
    /\ hostile_left = IF net = "hostile" THEN MaxHostile ELSE 0
    /\ c2r = <<>> /\ r2c = <<>> /\ c2r_closed = FALSE /\ wire_log = <<>>
    /\ c_handler \in {"FrameReader", "MpsFrameHandler"}
    /\ c_epk \in PrivKeys
    /\ c_run_pc = "spawn_read" /\ c_rd_pc = "unspawned" /\ c_wr_pc = "unspawned"
    /\ c_rd_err = None /\ c_rcvd = <<>> /\ c_tx = <<>> /\ c_tx_udp = <<>>
    /\ c_okm = <<>> /\ c_seal_key = None /\ c_seen_key = FALSE /\ c_uuid = None
    /\ r_pc = "read1" /\ r_err = None /\ r_rcvd = <<>> /\ r_epk = 0 /\ r_salt = <<>>
    /\ r_peer_pk = <<>> /\ r_okm = <<>> /\ r_rnk = None /\ r_check = None
    /\ r_id = None /\ r_tx_state = "alive" /\ r_state_q = <<>>
    /\ r_key_bytes = ZeroKey /\ r_uuid = UuidNil /\ r_result = None
    /\ CodecIdle /\ FramerIdle /\ DatagramIdle
    /\ AcceptIdle
    /\ WriterIdle /\ SenderIdle

\* ---- the client: run, the read task and the write task ----

\* run: spawn the read task
ClientSpawnRead ==
    /\ c_run_pc = "spawn_read"
    /\ c_run_pc' = "spawn_write"
    /\ c_rd_pc' = "read1"
    /\ UNCHANGED <<netVars, c_handler, c_epk, c_rd_err, c_rcvd, c_wr_pc, c_tx, c_tx_udp,
                   c_okm, c_seal_key, c_seen_key, c_uuid, relayVars, cdVars, frVars, acVars, dgVars, wtVars, snVars>>

\* run: spawn the write task
ClientSpawnWrite ==
    /\ c_run_pc = "spawn_write"
    /\ c_run_pc' = "send_init"
    /\ c_wr_pc' = "recv"
    /\ UNCHANGED <<netVars, c_handler, c_epk, c_rd_pc, c_rd_err, c_rcvd, c_tx, c_tx_udp,
                   c_okm, c_seal_key, c_seen_key, c_uuid, relayVars, cdVars, frVars, acVars, dgVars, wtVars, snVars>>

\* run: tx.send(Frame::Initialize(my_public_key))
ClientSendInitialize ==
    /\ c_run_pc = "send_init"
    /\ c_run_pc' = "wait"
    /\ c_tx' = Append(c_tx, Initialize(X25519Public(c_epk)))
    /\ UNCHANGED <<netVars, c_handler, c_epk, c_rd_pc, c_rd_err, c_rcvd, c_wr_pc, c_tx_udp,
                   c_okm, c_seal_key, c_seen_key, c_uuid, relayVars, cdVars, frVars, acVars, dgVars, wtVars, snVars>>

\* run: one turn of the loop over rx_udp_state
ClientWait ==
    /\ c_run_pc = "wait"
    /\ RecvReady(c_tx_udp, ClientSenders(c_rd_pc))
    /\ IF c_tx_udp = <<>>
       THEN /\ c_run_pc' = "udp"
            /\ UNCHANGED <<c_tx_udp, c_uuid, c_seen_key>>
       ELSE LET r == Recv(c_tx_udp) IN
        /\ c_tx_udp' = r.rest
        /\ IF WaitBreaks(r.msg)
           THEN /\ c_run_pc' = "udp"
                /\ c_uuid' = IF r.msg.tag = "Uuid" THEN Some(r.msg.val) ELSE c_uuid
                /\ UNCHANGED c_seen_key
           ELSE /\ c_seen_key' = (c_seen_key \/ r.msg.tag = "Key")
                /\ UNCHANGED <<c_run_pc, c_uuid>>
    /\ UNCHANGED <<netVars, c_handler, c_epk, c_rd_pc, c_rd_err, c_rcvd, c_wr_pc, c_tx,
                   c_okm, c_seal_key, relayVars, cdVars, frVars, acVars, dgVars, wtVars, snVars>>

\* the write task: handle_tx takes one frame and writes it
ClientWrite ==
    /\ c_wr_pc = "recv"
    /\ RecvReady(c_tx, ClientSenders(c_rd_pc))
    /\ IF c_tx = <<>>
       THEN /\ c_wr_pc' = "done"
            /\ UNCHANGED <<c_tx, c2r, wire_log>>
       ELSE LET r == Recv(c_tx) IN
        /\ c_tx' = r.rest
        /\ IF c2r_closed
           THEN /\ c_wr_pc' = "failed"
                /\ UNCHANGED <<c2r, wire_log>>
           ELSE /\ c2r' = Append(c2r, r.msg)
                /\ wire_log' = Append(wire_log, Logged("client", r.msg, c_rcvd))
                /\ UNCHANGED c_wr_pc
    /\ UNCHANGED <<net, hostile_left, r2c, c2r_closed, c_handler, c_epk, c_run_pc, c_rd_pc,
                   c_rd_err, c_rcvd, c_tx_udp, c_okm, c_seal_key, c_seen_key, c_uuid,
                   relayVars, cdVars, frVars, acVars, dgVars, wtVars, snVars>>

\* the closure given to agree_ephemeral by the read task
\*   FrameReader expands the AEAD key and the HMAC key and sends both
\*   MpsFrameHandler expands the AEAD key and sends key_bytes before filling it
ClientKeys(prk) ==
    IF c_handler = "FrameReader"
    THEN <<Derived("aead key", HkdfExpand(prk, "aead key")),
           Derived("hmac key", HkdfExpand(prk, "hmac key"))>>
    ELSE <<Derived("aead key", HkdfExpand(prk, "aead key"))>>

ClientKeyStates(keys) ==
    IF c_handler = "FrameReader"
    THEN <<UdpKey(keys[1].key), UdpHmacKey(keys[2].key)>>
    ELSE <<UdpKey(ZeroKey)>>

\* the read task: the first read_frame and the PeerInitialize branch
ClientRead1 ==
    /\ c_rd_pc = "read1"
    /\ ReadBufReady(r2c, R2cClosed)
    /\ IF r2c = <<>>
       THEN /\ c_rd_pc' = "read2"
            /\ UNCHANGED <<r2c, c_rcvd, c_rd_err, c_tx, c_tx_udp, c_okm, c_seal_key>>
       ELSE LET f == Head(r2c)
                agreed == X25519Agree(c_epk, f.pk)
                keys == ClientKeys(HkdfExtract(f.salt, agreed.km))
            IN  /\ r2c' = Tail(r2c)
                /\ c_rcvd' = Append(c_rcvd, f)
                /\ IF f.type # "PeerInitialize"
                   THEN /\ c_rd_pc' = "read2"
                        /\ UNCHANGED <<c_rd_err, c_tx, c_tx_udp, c_okm, c_seal_key>>
                   ELSE IF ~agreed.ok
                   THEN /\ c_rd_pc' = "failed"
                        /\ c_rd_err' = Some("Unspecified")
                        /\ UNCHANGED <<c_tx, c_tx_udp, c_okm, c_seal_key>>
                   ELSE /\ c_okm' = keys
                        /\ c_tx_udp' = c_tx_udp \o ClientKeyStates(keys)
                        /\ c_seal_key' = Some(keys[1].key)
                        /\ \E nonce \in Nonces :
                               c_tx' = Append(c_tx, Check(nonce, Seal(keys[1].key, nonce, Yoda)))
                        /\ c_rd_pc' = "read2"
                        /\ UNCHANGED c_rd_err
    /\ UNCHANGED <<net, hostile_left, c2r, c2r_closed, wire_log, c_handler, c_epk, c_run_pc,
                   c_wr_pc, c_seen_key, c_uuid, relayVars, cdVars, frVars, acVars, dgVars, wtVars, snVars>>

\* the read task: the second read_frame and the KeyAgreement branch
ClientRead2 ==
    /\ c_rd_pc = "read2"
    /\ ReadBufReady(r2c, R2cClosed)
    /\ c_rd_pc' = "done"
    /\ IF r2c = <<>>
       THEN UNCHANGED <<r2c, c_rcvd, c_tx_udp>>
       ELSE LET f == Head(r2c) IN
                /\ r2c' = Tail(r2c)
                /\ c_rcvd' = Append(c_rcvd, f)
                /\ c_tx_udp' = IF f.type = "KeyAgreement"
                               THEN Append(c_tx_udp, UdpUuid(UuidAsRead(f.uuid)))
                               ELSE c_tx_udp
    /\ UNCHANGED <<net, hostile_left, c2r, c2r_closed, wire_log, c_handler, c_epk, c_run_pc,
                   c_rd_err, c_wr_pc, c_tx, c_okm, c_seal_key, c_seen_key, c_uuid,
                   relayVars, cdVars, frVars, acVars, dgVars, wtVars, snVars>>

\* ---- the relay: Handler::handle_connection for one accepted connection ----

\* handle_connection fails with err
a_RelayFailUnspecified(err) ==
    /\ r_pc' = "failed"
    /\ r_err' = Some("Unspecified")
RelayFail(err) ==
    /\ r_pc' = "failed"
    /\ r_err' = Some(err)

\* a relay that writes PeerInitialize as soon as the connection is
\* accepted, before it has read a frame
a_RelayAnswersBeforeReading ==
    /\ r_pc = "read1"
    /\ \E sk \in PrivKeys, salt \in Salts :
        LET reply == PeerInitialize(X25519Public(sk), salt) IN
        /\ r_epk' = sk
        /\ r_salt' = salt
        /\ r2c' = Append(r2c, reply)
        /\ wire_log' = Append(wire_log, Logged("relay", reply, r_rcvd))
    /\ r_pc' = "read2"
    /\ UNCHANGED <<c2r, r_err, r_rcvd, r_peer_pk, r_okm, r_rnk, r_state_q>>
    /\ UNCHANGED <<net, hostile_left, c2r_closed, clientVars, r_check, r_id, r_tx_state,
                   r_key_bytes, r_uuid, r_result, cdVars, frVars, acVars, dgVars, wtVars, snVars>>

\* the first read_frame, and handle_initialize
RelayRead1 ==
    /\ r_pc = "read1"
    /\ ReadBufReady(c2r, c2r_closed)
    /\ IF c2r = <<>>
       THEN /\ r_pc' = "read2"
            /\ UNCHANGED <<c2r, r2c, wire_log, r_err, r_rcvd, r_epk, r_salt, r_peer_pk,
                           r_okm, r_rnk, r_state_q>>
       ELSE LET f == Head(c2r) IN
            /\ c2r' = Tail(c2r)
            /\ r_rcvd' = Append(r_rcvd, f)
            /\ IF f.type # "Initialize"
               THEN /\ RelayFail("InvalidFrame")
                    /\ UNCHANGED <<r2c, wire_log, r_epk, r_salt, r_peer_pk, r_okm, r_rnk,
                                   r_state_q>>
               ELSE \E sk \in PrivKeys, salt \in Salts :
                    LET reply == PeerInitialize(X25519Public(sk), salt)
                        agreed == X25519Agree(sk, f.pk)
                        key == HkdfExpand(HkdfExtract(salt, agreed.km), "aead key")
                    IN  /\ r_epk' = sk
                        /\ r_salt' = salt
                        /\ r_peer_pk' = f.pk
                        /\ r2c' = Append(r2c, reply)
                        /\ wire_log' = Append(wire_log, Logged("relay", reply, r_rcvd'))
                        /\ IF agreed.ok
                           THEN /\ r_okm' = <<Derived("aead key", key)>>
                                /\ r_state_q' = Append(r_state_q, UdpKey(key))
                                /\ r_rnk' = Some(key)
                                /\ r_pc' = "read2"
                                /\ UNCHANGED r_err
                           ELSE /\ RelayFail("Unspecified")
                                /\ UNCHANGED <<r_okm, r_state_q, r_rnk>>
    /\ UNCHANGED <<net, hostile_left, c2r_closed, clientVars, r_check, r_id, r_tx_state,
                   r_key_bytes, r_uuid, r_result, cdVars, frVars, acVars, dgVars, wtVars, snVars>>

\* the second read_frame, and handle_check
RelayRead2 ==
    /\ r_pc = "read2"
    /\ ReadBufReady(c2r, c2r_closed)
    /\ IF c2r = <<>>
       THEN /\ r_pc' = "wait"
            /\ UNCHANGED <<c2r, r2c, wire_log, r_err, r_rcvd, r_check, r_id, r_tx_state,
                           r_state_q>>
       ELSE LET f == Head(c2r) IN
            /\ c2r' = Tail(c2r)
            /\ r_rcvd' = Append(r_rcvd, f)
            /\ IF f.type # "Check"
               THEN /\ RelayFail("InvalidFrame")
                    /\ UNCHANGED <<r2c, wire_log, r_check, r_id, r_tx_state, r_state_q>>
               ELSE /\ r_check' = Some(f)
                    /\ r_tx_state' = "dropped"
                    /\ IF r_rnk = None
                       THEN /\ RelayFail("KeyNotEstablished")
                            /\ UNCHANGED <<r2c, wire_log, r_id, r_state_q>>
                       ELSE LET opened == Open(r_rnk[1], f.nonce, f.enc) IN
                            IF opened = None \/ ~MarkerMatches(opened[1])
                            THEN /\ RelayFail("DecryptionFailed")
                                 /\ UNCHANGED <<r2c, wire_log, r_id, r_state_q>>
                            ELSE \E id \in SessionIds :
                                 /\ r_id' = Some(id)
                                 /\ r_state_q' = Append(r_state_q, UdpUuid(id))
                                 /\ r2c' = Append(r2c, KeyAgreement(id))
                                 /\ wire_log' = Append(wire_log,
                                        Logged("relay", KeyAgreement(id), r_rcvd'))
                                 /\ r_pc' = "wait"
                                 /\ UNCHANGED r_err
    /\ UNCHANGED <<net, hostile_left, c2r_closed, clientVars, r_epk, r_salt, r_peer_pk,
                   r_okm, r_rnk, r_key_bytes, r_uuid, r_result, cdVars, frVars, acVars, dgVars, wtVars, snVars>>

\* one turn of the loop over rx_udp_state, or its end on a closed empty queue
RelayWait ==
    /\ r_pc = "wait"
    /\ r_state_q # <<>> \/ r_tx_state = "dropped"
    /\ IF r_state_q = <<>>
       THEN /\ r_pc' = "returned"
            /\ r_result' = Some(<<r_key_bytes, r_uuid>>)
            /\ UNCHANGED <<r_state_q, r_key_bytes, r_uuid>>
       ELSE LET r == Recv(r_state_q) IN
            /\ r_state_q' = r.rest
            /\ IF r.msg.tag = "Uuid"
               THEN /\ r_uuid' = r.msg.val
                    /\ r_pc' = "returned"
                    /\ r_result' = Some(<<r_key_bytes, r.msg.val>>)
                    /\ UNCHANGED r_key_bytes
               ELSE /\ r_key_bytes' = r.msg.val
                    /\ UNCHANGED <<r_pc, r_uuid, r_result>>
    /\ UNCHANGED <<netVars, clientVars, r_err, r_rcvd, r_epk, r_salt, r_peer_pk, r_okm,
                   r_rnk, r_check, r_id, r_tx_state, cdVars, frVars, acVars, dgVars, wtVars, snVars>>

\* run: handle_connection returned Ok; the UDP reader and sender are spawned
RelayPromote ==
    /\ r_pc = "returned"
    /\ r_pc' = "promoted"
    /\ UNCHANGED <<netVars, clientVars, r_err, r_rcvd, r_epk, r_salt, r_peer_pk, r_okm,
                   r_rnk, r_check, r_id, r_tx_state, r_state_q, r_key_bytes, r_uuid,
                   r_result, cdVars, frVars, acVars, dgVars, wtVars, snVars>>

\* ---- the network of a hostile run ----

\* frames a party that is not the honest client can put on the stream to the
\* relay; it can seal under the all-zero key and under a key it negotiated
ForgedKeys == {ZeroKey} \cup {c_seal_key[i] : i \in 1..Len(c_seal_key)}
ForgedToRelay ==
    {Initialize(<<0>>), KeyAgreement(UuidB)}
        \cup {Check(NonceA, Seal(k, NonceA, pt)) : k \in ForgedKeys, pt \in {Yoda, "Vader"}}
ForgedToClient == {PeerInitialize(<<0>>, <<7>>), KeyAgreement(UuidB)}

\* a frame is put in front of the frames in flight to the relay
HostileInjectToRelay ==
    /\ net = "hostile" /\ hostile_left > 0
    /\ r_pc \in {"read1", "read2"}
    /\ ~c2r_closed
    /\ \E f \in ForgedToRelay : c2r' = <<f>> \o c2r
    /\ hostile_left' = hostile_left - 1
    /\ UNCHANGED <<net, r2c, c2r_closed, wire_log, clientVars, relayVars, cdVars, frVars, acVars, dgVars, wtVars, snVars>>

\* a frame is put in front of the frames in flight to the client
HostileInjectToClient ==
    /\ net = "hostile" /\ hostile_left > 0
    /\ c_rd_pc \in {"read1", "read2"}
    /\ ~R2cClosed
    /\ \E f \in ForgedToClient : r2c' = <<f>> \o r2c
    /\ hostile_left' = hostile_left - 1
    /\ UNCHANGED <<net, c2r, c2r_closed, wire_log, clientVars, relayVars, cdVars, frVars, acVars, dgVars, wtVars, snVars>>

\* a bit of the ciphertext of a Check frame in flight to the relay is flipped
HostileTamper ==
    /\ net = "hostile" /\ hostile_left > 0
    /\ \E i \in 1..Len(c2r) :
        /\ c2r[i].type = "Check"
        /\ c2r[i].enc.flip = 0
        /\ c2r' = [c2r EXCEPT ![i].enc.flip = 1]
    /\ hostile_left' = hostile_left - 1
    /\ UNCHANGED <<net, r2c, c2r_closed, wire_log, clientVars, relayVars, cdVars, frVars, acVars, dgVars, wtVars, snVars>>

\* the stream to the relay ends: the relay reads Ok(None) once it has read
\* what was in flight, and the client's later writes fail
HostileClose ==
    /\ net = "hostile" /\ hostile_left > 0
    /\ ~c2r_closed
    /\ r_pc \in {"read1", "read2"}
    /\ c2r_closed' = TRUE
    /\ hostile_left' = hostile_left - 1
    /\ UNCHANGED <<net, c2r, r2c, wire_log, clientVars, relayVars, cdVars, frVars, acVars, dgVars, wtVars, snVars>>

ClientRun == ClientSpawnRead \/ ClientSpawnWrite \/ ClientSendInitialize \/ ClientWait
ClientRead == ClientRead1 \/ ClientRead2
Relay == RelayRead1 \/ RelayRead2 \/ RelayWait \/ RelayPromote
Hostile == HostileInjectToRelay \/ HostileInjectToClient \/ HostileTamper \/ HostileClose

HonestNext == ClientRun \/ ClientRead \/ ClientWrite \/ Relay
Next == HonestNext \/ Hostile

Spec == HsInit /\ [][Next]_vars

\* a reliable stream that stays open, and weak fairness on every task
LiveInit == HsInit /\ net = "reliable"
Fairness ==
    /\ WF_vars(ClientRun) /\ WF_vars(ClientRead) /\ WF_vars(ClientWrite) /\ WF_vars(Relay)
SpecLive == LiveInit /\ [][HonestNext]_vars /\ Fairness

\* a stream the peer may close early, and weak fairness on every task: the
\* tasks are scheduled whatever the network does
SpecHostileLive == HsInit /\ [][Next]_vars /\ Fairness

\* ---- the client against a peer that does not follow the handshake ----
MaxRogue == 2

\* the frames such a peer writes
RogueFrames ==
    {Initialize(<<0>>), PeerInitialize(X25519Public(2), <<7>>), KeyAgreement(UuidB)}

RogueInit ==
    /\ net = "rogue"
    /\ hostile_left = MaxRogue
    /\ c2r = <<>> /\ r2c = <<>> /\ c2r_closed = FALSE /\ wire_log = <<>>
    /\ c_handler \in {"FrameReader", "MpsFrameHandler"}
    /\ c_epk \in PrivKeys
    /\ c_run_pc = "spawn_read" /\ c_rd_pc = "unspawned" /\ c_wr_pc = "unspawned"
    /\ c_rd_err = None /\ c_rcvd = <<>> /\ c_tx = <<>> /\ c_tx_udp = <<>>
    /\ c_okm = <<>> /\ c_seal_key = None /\ c_seen_key = FALSE /\ c_uuid = None
    /\ r_pc = "off" /\ r_err = None /\ r_rcvd = <<>> /\ r_epk = 0 /\ r_salt = <<>>
    /\ r_peer_pk = <<>> /\ r_okm = <<>> /\ r_rnk = None /\ r_check = None
    /\ r_id = None /\ r_tx_state = "off" /\ r_state_q = <<>>
    /\ r_key_bytes = None /\ r_uuid = None /\ r_result = None
    /\ CodecIdle /\ FramerIdle /\ DatagramIdle
    /\ AcceptIdle
    /\ WriterIdle /\ SenderIdle

\* the peer writes a frame of its choice
RogueSend ==
    /\ net = "rogue" /\ hostile_left > 0
    /\ \E f \in RogueFrames :
        /\ r2c' = Append(r2c, f)
        /\ wire_log' = Append(wire_log, Logged("relay", f, r_rcvd))
    /\ hostile_left' = hostile_left - 1
    /\ UNCHANGED <<net, c2r, c2r_closed, clientVars, relayVars, cdVars, frVars, acVars, dgVars, wtVars, snVars>>

RogueNext == ClientRun \/ ClientRead \/ ClientWrite \/ RogueSend

SpecRogue == RogueInit /\ [][RogueNext]_vars

(***************************************************************************)
(* The datagram codec.  Packets are byte sequences of their real layout.    *)
(* The AEAD adds a key- and nonce-dependent pad to each byte and appends a  *)
(* TAG_LEN-byte tag computed from the key, the nonce and the ciphertext;    *)
(* the HMAC is a SHA512_OUTPUT_LEN-byte checksum of the key and the data.   *)
(***************************************************************************)
TAG_LEN == 16
SHA512_OUTPUT_LEN == 64
USIZE_LEN == 8

AeadKeys == {11, 12}
HmacKeys == {21, 22}
Ping == <<112, 105, 110, 103>>
Payloads == {<<>>, Ping}

RECURSIVE ByteSum(_)
ByteSum(s) == IF s = <<>> THEN 0 ELSE (Head(s) + ByteSum(Tail(s))) % 256

AeadPad(key, nonce, i) == (key + nonce[1] + i) % 256
AeadEncrypt(key, nonce, pt) ==
    [i \in 1..Len(pt) |-> (pt[i] + AeadPad(key, nonce, i)) % 256]
AeadDecrypt(key, nonce, ct) ==
    [i \in 1..Len(ct) |-> (ct[i] + 256 - AeadPad(key, nonce, i)) % 256]
AeadTag(key, nonce, ct) ==
    [j \in 1..TAG_LEN |-> (ByteSum(ct) + key * j + nonce[1] + Len(ct)) % 256]

\* RandomizedNonceKey::seal_in_place_append_tag: the buffer becomes the
\* ciphertext followed by the tag
SealInPlaceAppendTag(key, nonce, pt) ==
    AeadEncrypt(key, nonce, pt) \o AeadTag(key, nonce, AeadEncrypt(key, nonce, pt))

\* an open_in_place that does not check the AEAD tag
a_OpenInPlaceUnchecked(key, nonce, in_out) ==
    LET n == IF Len(in_out) < TAG_LEN THEN 0 ELSE Len(in_out) - TAG_LEN
        ct == SubSeq(in_out, 1, n)
    IN  [ok |-> TRUE, plain |-> AeadDecrypt(key, nonce, ct),
         in_out |-> AeadDecrypt(key, nonce, ct) \o SubSeq(in_out, n + 1, Len(in_out))]

\* RandomizedNonceKey::open_in_place(nonce, aad, in_out)
\*   plain:  the slice returned, in_out without its last TAG_LEN bytes
\*   in_out: the caller's buffer afterwards; it keeps its length, the
\*           plaintext at its head and the tag bytes after it
OpenInPlace(key, nonce, in_out) ==
    LET n == Len(in_out) - TAG_LEN
        ct == SubSeq(in_out, 1, n)
        tag == SubSeq(in_out, n + 1, Len(in_out))
    IN  IF n < 0 \/ tag # AeadTag(key, nonce, ct)
        THEN [ok |-> FALSE, plain |-> <<>>, in_out |-> in_out]
        ELSE [ok |-> TRUE, plain |-> AeadDecrypt(key, nonce, ct),
              in_out |-> AeadDecrypt(key, nonce, ct) \o tag]

\* hmac::sign
HmacSign(key, data) ==
    [j \in 1..SHA512_OUTPUT_LEN |-> (ByteSum(data) + key * j) % 256]

\* a verify that accepts every tag
a_HmacVerifyAlways(key, data, tag) == TRUE

\* hmac::verify
HmacVerify(key, data, tag) == tag = HmacSign(key, data)

\* an encrypt that signs the plaintext and declares its length
a_UdpSenderEncryptSignsPlaintext(id, rnk, hmac, nonce, data) ==
    nonce \o HmacSign(hmac, id \o data) \o ToBE8(Len(id \o data))
          \o SealInPlaceAppendTag(rnk, nonce, id \o data)

\* UdpSender::encrypt(data), with the nonce the seal generated
UdpSenderEncrypt(id, rnk, hmac, nonce, data) ==
    LET encrypted_part == SealInPlaceAppendTag(rnk, nonce, id \o data)
        tag == HmacSign(hmac, encrypted_part)
    IN  nonce \o tag \o ToBE8(Len(encrypted_part)) \o encrypted_part

\* get_nonce
GetNonce(src, pos) ==
    IF Remaining(src, pos) < NONCE_LEN
    THEN [some |-> FALSE, val |-> <<>>, pos |-> pos]
    ELSE [some |-> TRUE, val |-> Slice(src, pos + 1, pos + NONCE_LEN), pos |-> pos + NONCE_LEN]

\* what EncryptedFrame::parse returns
\*   kind: "frame" Ok(Some(Bytes((uuid, data)))), "none" Ok(None), "err" Err(err)
EncNone == [kind |-> "none", uuid |-> <<>>, data |-> <<>>, err |-> ""]
EncErr(err) == [kind |-> "err", uuid |-> <<>>, data |-> <<>>, err |-> err]
EncBytes(uuid, data) == [kind |-> "frame", uuid |-> uuid, data |-> data, err |-> ""]

\* EncryptedFrame::parse(src, hmac, rnk)
EncryptedFrameParse(src, hmac, rnk) ==
    LET nonce_bytes == GetNonce(src, 0)
        tag_bytes == GetBytes(src, nonce_bytes.pos, SHA512_OUTPUT_LEN)
        length_slice == GetUsize(src, tag_bytes.pos)
        data == GetBytes(src, length_slice.pos, FromBE8(length_slice.val))
        opened == OpenInPlace(rnk, nonce_bytes.val, data.val)
    IN  IF ~nonce_bytes.some THEN EncNone
        ELSE IF ~tag_bytes.some THEN EncNone
        ELSE IF ~length_slice.some THEN EncNone
        ELSE IF ~data.some THEN EncNone
        ELSE IF ~HmacVerify(hmac, data.val, tag_bytes.val) THEN EncErr("Unspecified")
        ELSE IF ~opened.ok THEN EncErr("Unspecified")
        ELSE EncBytes(SubSeq(opened.in_out, 1, UUID_LEN),
                      SubSeq(opened.in_out, UUID_LEN + 1, Len(opened.in_out)))

\* the calls EncryptedFrame::parse makes once the four fields are read, in
\* the order it makes them: hmac::verify, open_in_place, EncryptedFrame::Bytes
EncryptedFrameCalls(src, hmac, rnk) ==
    LET nonce_bytes == GetNonce(src, 0)
        tag_bytes == GetBytes(src, nonce_bytes.pos, SHA512_OUTPUT_LEN)
        length_slice == GetUsize(src, tag_bytes.pos)
        data == GetBytes(src, length_slice.pos, FromBE8(length_slice.val))
    IN  IF ~nonce_bytes.some \/ ~tag_bytes.some \/ ~length_slice.some \/ ~data.some
        THEN <<>>
        ELSE IF ~HmacVerify(hmac, data.val, tag_bytes.val) THEN <<"verify">>
        ELSE IF ~OpenInPlace(rnk, nonce_bytes.val, data.val).ok
        THEN <<"verify", "open_in_place">>
        ELSE <<"verify", "open_in_place", "Bytes">>

(***************************************************************************)
(* SpecDatagram: UdpSender::encrypt, then EncryptedFrame::parse of the      *)
(* packet, of a prefix of it, or of the packet with one byte altered.       *)
(***************************************************************************)
DatagramInit ==
    /\ en_pc = "start"
    /\ en_id \in SessionIds
    /\ en_data \in Payloads
    /\ en_rnk \in AeadKeys
    /\ en_hmac \in HmacKeys
    /\ en_packet = <<>> /\ en_input = <<>> /\ en_keys = <<>> /\ en_result = <<>>
    /\ ud_n = 0 /\ ud_socket = <<>> /\ ud_sent = 0
    /\ ud_buf = <<>> /\ ud_alive = <<>> /\ ud_log = <<>>
    /\ CodecIdle /\ FramerIdle /\ HandshakeIdle
    /\ AcceptIdle
    /\ WriterIdle /\ SenderIdle

\* UdpSender::encrypt
DatagramEncrypt ==
    /\ en_pc = "start"
    /\ \E nonce \in Nonces :
        en_packet' = UdpSenderEncrypt(en_id, en_rnk, en_hmac, nonce, en_data)
    /\ en_pc' = "sent"
    /\ UNCHANGED <<en_id, en_data, en_rnk, en_hmac, en_input, en_keys, en_result,
                   udVars, cdVars, frVars, acVars, hsVars, wtVars, snVars>>

\* EncryptedFrame::parse of the packet, under any pair of keys
DatagramParse ==
    /\ en_pc = "sent"
    /\ \E hmac \in HmacKeys, rnk \in AeadKeys :
        /\ en_keys' = <<hmac, rnk>>
        /\ en_result' = EncryptedFrameParse(en_packet, hmac, rnk)
    /\ en_input' = en_packet
    /\ en_pc' = "parsed"
    /\ UNCHANGED <<en_id, en_data, en_rnk, en_hmac, en_packet, udVars, cdVars, frVars, acVars, hsVars, wtVars, snVars>>

\* the lengths at which the fields of a packet end, and the lengths before
PrefixLens(packet) ==
    {0, NONCE_LEN - 1, NONCE_LEN, NONCE_LEN + SHA512_OUTPUT_LEN,
     NONCE_LEN + SHA512_OUTPUT_LEN + USIZE_LENGTH, Len(packet) - 1}

\* EncryptedFrame::parse of a strict prefix of the packet, under the sender's keys
DatagramParsePrefix ==
    /\ en_pc = "sent"
    /\ \E k \in PrefixLens(en_packet) :
        /\ en_input' = SubSeq(en_packet, 1, k)
        /\ en_result' = EncryptedFrameParse(SubSeq(en_packet, 1, k), en_hmac, en_rnk)
    /\ en_keys' = <<en_hmac, en_rnk>>
    /\ en_pc' = "parsed"
    /\ UNCHANGED <<en_id, en_data, en_rnk, en_hmac, en_packet, udVars, cdVars, frVars, acVars, hsVars, wtVars, snVars>>

\* positions of a byte of the MAC tag and of the last byte of the packet
AlteredAt(packet) == {NONCE_LEN + 1, Len(packet)}

\* EncryptedFrame::parse of the packet with one byte altered, under the
\* sender's keys
DatagramParseAltered ==
    /\ en_pc = "sent"
    /\ \E k \in AlteredAt(en_packet) :
        LET altered == [en_packet EXCEPT ![k] = (@ + 1) % 256] IN
        /\ en_input' = altered
        /\ en_result' = EncryptedFrameParse(altered, en_hmac, en_rnk)
    /\ en_keys' = <<en_hmac, en_rnk>>
    /\ en_pc' = "parsed"
    /\ UNCHANGED <<en_id, en_data, en_rnk, en_hmac, en_packet, udVars, cdVars, frVars, acVars, hsVars, wtVars, snVars>>

DatagramNext ==
    DatagramEncrypt \/ DatagramParse \/ DatagramParsePrefix \/ DatagramParseAltered

SpecDatagram == DatagramInit /\ [][DatagramNext]_vars

(***************************************************************************)
(* SpecUdp: the relay's UdpReader tasks.  run spawns one per promoted       *)
(* session, each with its own buf and key and all on the one UDP socket; a  *)
(* datagram the socket holds goes to whichever task's recv_buf takes it.    *)
(***************************************************************************)
MaxDatagrams == 2

SessionCounts == {1, 2}
SessionIdOf(s) == IF s = 1 THEN UuidA ELSE UuidB
SessionKeyOf(s) == 10 + s

\* the simple form of a datagram: [nonce][AEAD(id, 8-byte length, message)]
SimplePacket(id, rnk, nonce, declared, msg) ==
    nonce \o SealInPlaceAppendTag(rnk, nonce, id \o ToBE8(declared) \o msg)

Datagram(bytes, kind, origin, msg) ==
    [bytes |-> bytes, kind |-> kind, origin |-> origin, msg |-> msg]

\* the datagrams the client of session s sends
ValidDatagrams(s) ==
    {Datagram(SimplePacket(SessionIdOf(s), SessionKeyOf(s), nonce, Len(msg), msg),
              "valid", s, msg) : nonce \in Nonces, msg \in Payloads}

\* datagrams that are too short, that fail decryption, and that declare a
\* length larger than the bytes that follow it
MalformedDatagrams(s) ==
    LET good == SimplePacket(SessionIdOf(s), SessionKeyOf(s), NonceB, Len(Ping), Ping)
    IN  {Datagram(<<1, 2, 3>>, "short", s, <<>>),
         Datagram([good EXCEPT ![Len(good)] = (@ + 1) % 256], "corrupt", s, Ping),
         Datagram(SimplePacket(SessionIdOf(s), SessionKeyOf(s), NonceB,
                               Len(Ping) + TAG_LEN + 1, Ping), "overlong", s, Ping)}

\* what handle_bytes did
\*   ok:  it returned Ok(()); the loop of handle_read goes on
\*   out: "packet too short", "message too short", "message", or the error
Handled(buf, ok, out, uuid, message) ==
    [buf |-> buf, ok |-> ok, out |-> out, uuid |-> uuid, message |-> message]

\* UdpReader::handle_bytes(len), on the buf that recv_buf appended len bytes to
HandleBytes(buf, len, rnk) ==
    IF len < NONCE_LEN + UUID_LEN + USIZE_LEN + 1
    THEN Handled(buf, TRUE, "packet too short", <<>>, <<>>)
    ELSE LET read == SubSeq(buf, 1, len)
             rest == SubSeq(buf, len + 1, Len(buf))
             nonce_bytes == SubSeq(read, 1, NONCE_LEN)
             ciphertext == SubSeq(read, NONCE_LEN + 1, len)
             opened == OpenInPlace(rnk, nonce_bytes, ciphertext)
             data == opened.in_out
             uuid == SubSeq(data, 1, UUID_LEN)
             len_bytes == SubSeq(data, UUID_LEN + 1, UUID_LEN + USIZE_LEN)
             message_bytes == SubSeq(data, UUID_LEN + USIZE_LEN + 1, Len(data))
             message_len == FromBE8(len_bytes)
         IN  IF ~opened.ok
             THEN Handled(rest, FALSE, "Unspecified", <<>>, <<>>)
             ELSE IF Len(message_bytes) < message_len
             THEN Handled(rest, TRUE, "message too short", uuid, <<>>)
             ELSE Handled(rest, TRUE, "message", uuid, SubSeq(message_bytes, 1, message_len))

UdpInit ==
    /\ ud_n \in SessionCounts
    /\ ud_socket = <<>>
    /\ ud_sent = 0
    /\ ud_buf = [r \in 1..ud_n |-> <<>>]
    /\ ud_alive = [r \in 1..ud_n |-> TRUE]
    /\ ud_log = [r \in 1..ud_n |-> <<>>]
    /\ en_pc = "off" /\ en_id = <<>> /\ en_data = <<>> /\ en_rnk = 0 /\ en_hmac = 0
    /\ en_packet = <<>> /\ en_input = <<>> /\ en_keys = <<>> /\ en_result = <<>>
    /\ CodecIdle /\ FramerIdle /\ HandshakeIdle
    /\ AcceptIdle
    /\ WriterIdle /\ SenderIdle

\* the client of a session sends a well-formed datagram
UdpSendValid ==
    /\ ud_sent < MaxDatagrams
    /\ \E s \in 1..ud_n : \E d \in ValidDatagrams(s) : ud_socket' = Append(ud_socket, d)
    /\ ud_sent' = ud_sent + 1
    /\ UNCHANGED <<ud_n, ud_buf, ud_alive, ud_log, enVars, cdVars, frVars, acVars, hsVars, wtVars, snVars>>

\* a malformed datagram arrives
UdpSendMalformed ==
    /\ ud_sent < MaxDatagrams
    /\ \E s \in 1..ud_n : \E d \in MalformedDatagrams(s) : ud_socket' = Append(ud_socket, d)
    /\ ud_sent' = ud_sent + 1
    /\ UNCHANGED <<ud_n, ud_buf, ud_alive, ud_log, enVars, cdVars, frVars, acVars, hsVars, wtVars, snVars>>

\* one turn of the loop of handle_read in the task of session r
UdpRecv ==
    /\ ud_socket # <<>>
    /\ \E r \in 1..ud_n :
        /\ ud_alive[r]
        /\ LET d == Head(ud_socket)
               h == HandleBytes(ud_buf[r] \o d.bytes, Len(d.bytes), SessionKeyOf(r))
           IN  /\ ud_buf' = [ud_buf EXCEPT ![r] = h.buf]
               /\ ud_alive' = [ud_alive EXCEPT ![r] = h.ok]
               /\ ud_log' = [ud_log EXCEPT ![r] = Append(@,
                     [kind |-> d.kind, origin |-> d.origin, msg |-> d.msg, ok |-> h.ok,
                      out |-> h.out, uuid |-> h.uuid, message |-> h.message])]
    /\ ud_socket' = Tail(ud_socket)
    /\ UNCHANGED <<ud_n, ud_sent, enVars, cdVars, frVars, acVars, hsVars, wtVars, snVars>>

UdpNext == UdpSendValid \/ UdpSendMalformed \/ UdpRecv

SpecUdp == UdpInit /\ [][UdpNext]_vars

(***************************************************************************)
(* SpecAccept: the relay's run.  The loop accepts connections and spawns a  *)
(* task per connection that owns its Handler (the Connection and rnk) and   *)
(* the state queue handle_connection creates; the task logs the error of    *)
(* handle_connection.  Each peer is of one kind and writes frames as its    *)
(* kind prescribes, on its own connection.                                  *)
(***************************************************************************)
MaxConns == 2

\* what a peer does: the handshake, a KeyAgreement as first frame, a Check
\* that seals another marker, or a close in the middle of its second frame
PeerKinds == {"honest", "wrong_first", "bad_marker", "reset"}

\* the key pairs and salts handle_initialize draws in this specification
HandlerPrivKeys == {3}
HandlerSalts == {<<7>>}

\* Handler { connection: Connection::new(socket), rnk: None } and the task
\* spawned for it, at the first read_frame of handle_connection
NewConn(kind, csk) ==
    [kind |-> kind, csk |-> csk, sent |-> 0,
     in |-> <<>>, closed |-> FALSE, partial |-> FALSE, out |-> <<>>,
     pc |-> "read1", rcvd |-> <<>>, rnk |-> None, q |-> <<>>, tx_alive |-> TRUE,
     key_bytes |-> ZeroKey, uuid |-> UuidNil, err |-> None, result |-> None]

\* the spawned task on Err(e) of handle_connection: error!(..), nothing else
a_TaskErrorEndsLoop(loop) == "ended"
AfterTaskError(loop) == loop

\* handle_connection returns Err(err)
ConnFail(c, err) == [c EXCEPT !.pc = "failed", !.err = Some(err)]

\* read_frame on a stream with no whole frame left and closed by the peer
ConnReadAtEof(c, next) ==
    IF c.partial THEN ConnFail(c, "ConnectionResetByPeer") ELSE [c EXCEPT !.pc = next]

\* handle_initialize(pk), with the key pair and salt it generates
HandleInitialize(c, pk, sk, salt) ==
    LET agreed == X25519Agree(sk, pk)
        key == HkdfExpand(HkdfExtract(salt, agreed.km), "aead key")
        replied == [c EXCEPT !.out = Append(@, PeerInitialize(X25519Public(sk), salt))]
    IN  IF agreed.ok
        THEN [replied EXCEPT !.q = Append(@, UdpKey(key)), !.rnk = Some(key), !.pc = "read2"]
        ELSE ConnFail(replied, "Unspecified")

\* handle_check(nonce, enc, tx_udp_state), with the id it generates; the
\* sender of the state queue is dropped when it returns
HandleCheck(c, f, id) ==
    LET d == [c EXCEPT !.tx_alive = FALSE] IN
    IF c.rnk = None THEN ConnFail(d, "KeyNotEstablished")
    ELSE LET opened == Open(c.rnk[1], f.nonce, f.enc) IN
         IF opened = None THEN ConnFail(d, "DecryptionFailed")
         ELSE IF ~MarkerMatches(opened[1]) THEN ConnFail(d, "DecryptionFailed")
         ELSE [d EXCEPT !.q = Append(@, UdpUuid(id)),
                        !.out = Append(@, KeyAgreement(id)),
                        !.pc = "wait"]

\* the frame a peer writes next, by its kind
PeerFrame(c) ==
    IF c.sent = 0
    THEN IF c.kind = "wrong_first" THEN KeyAgreement(UuidB)
         ELSE Initialize(X25519Public(c.csk))
    ELSE LET reply == c.out[1]
             key == HkdfExpand(HkdfExtract(reply.salt, X25519Agree(c.csk, reply.pk).km),
                               "aead key")
         IN  Check(NonceA, Seal(key, NonceA, IF c.kind = "bad_marker" THEN "Vader" ELSE Yoda))

AcceptInit ==
    /\ ac_loop = "accept"
    /\ ac_conns = <<>>
    /\ CodecIdle /\ FramerIdle /\ HandshakeIdle /\ DatagramIdle
    /\ WriterIdle /\ SenderIdle

\* listener.accept() returns Ok: a Handler is built and its task spawned
AcceptConn ==
    /\ ac_loop = "accept"
    /\ Len(ac_conns) < MaxConns
    /\ \E kind \in PeerKinds, csk \in PrivKeys :
        ac_conns' = Append(ac_conns, NewConn(kind, csk))
    /\ UNCHANGED <<ac_loop, cdVars, frVars, hsVars, dgVars, wtVars, snVars>>

\* the peer of connection i writes its next frame, or closes mid-frame
PeerSend(i) ==
    /\ i \in 1..Len(ac_conns)
    /\ LET c == ac_conns[i] IN
        /\ ~c.closed
        /\ c.sent = 0 \/ (c.sent = 1 /\ c.kind # "wrong_first" /\ c.out # <<>>)
        /\ ac_conns' = [ac_conns EXCEPT ![i] =
               IF c.sent = 1 /\ c.kind = "reset"
               THEN [c EXCEPT !.sent = 2, !.closed = TRUE, !.partial = TRUE]
               ELSE [c EXCEPT !.sent = @ + 1, !.in = Append(@, PeerFrame(c))]]
    /\ UNCHANGED <<ac_loop, cdVars, frVars, hsVars, dgVars, wtVars, snVars>>

\* the task of connection i: the first read_frame and handle_initialize
ConnRead1(i) ==
    /\ i \in 1..Len(ac_conns)
    /\ LET c == ac_conns[i] IN
        /\ c.pc = "read1"
        /\ ReadBufReady(c.in, c.closed)
        /\ \E sk \in HandlerPrivKeys, salt \in HandlerSalts :
            LET f == Head(c.in)
                taken == [c EXCEPT !.in = Tail(@), !.rcvd = Append(@, f)]
                after == IF c.in = <<>> THEN ConnReadAtEof(c, "read2")
                         ELSE IF f.type # "Initialize" THEN ConnFail(taken, "InvalidFrame")
                         ELSE HandleInitialize(taken, f.pk, sk, salt)
            IN  /\ ac_conns' = [ac_conns EXCEPT ![i] = after]
                /\ ac_loop' = IF after.pc = "failed" THEN AfterTaskError(ac_loop) ELSE ac_loop
    /\ UNCHANGED <<cdVars, frVars, hsVars, dgVars, wtVars, snVars>>

\* the task of connection i: the second read_frame and handle_check
ConnRead2(i) ==
    /\ i \in 1..Len(ac_conns)
    /\ LET c == ac_conns[i] IN
        /\ c.pc = "read2"
        /\ ReadBufReady(c.in, c.closed)
        /\ \E id \in SessionIds :
            LET f == Head(c.in)
                taken == [c EXCEPT !.in = Tail(@), !.rcvd = Append(@, f)]
                after == IF c.in = <<>> THEN ConnReadAtEof(c, "wait")
                         ELSE IF f.type # "Check" THEN ConnFail(taken, "InvalidFrame")
                         ELSE HandleCheck(taken, f, id)
            IN  /\ ac_conns' = [ac_conns EXCEPT ![i] = after]
                /\ ac_loop' = IF after.pc = "failed" THEN AfterTaskError(ac_loop) ELSE ac_loop
    /\ UNCHANGED <<cdVars, frVars, hsVars, dgVars, wtVars, snVars>>

\* the task of connection i: one turn of the loop over rx_udp_state
ConnWait(i) ==
    /\ i \in 1..Len(ac_conns)
    /\ LET c == ac_conns[i] IN
        /\ c.pc = "wait"
        /\ RecvReady(c.q, IF c.tx_alive THEN 1 ELSE 0)
        /\ ac_conns' = [ac_conns EXCEPT ![i] =
               IF c.q = <<>>
               THEN [c EXCEPT !.pc = "promoted", !.result = Some(<<c.key_bytes, c.uuid>>)]
               ELSE LET r == Recv(c.q) IN
                    IF r.msg.tag = "Uuid"
                    THEN [c EXCEPT !.q = r.rest, !.uuid = r.msg.val, !.pc = "promoted",
                                   !.result = Some(<<c.key_bytes, r.msg.val>>)]
                    ELSE [c EXCEPT !.q = r.rest, !.key_bytes = r.msg.val]]
    /\ UNCHANGED <<ac_loop, cdVars, frVars, hsVars, dgVars, wtVars, snVars>>

ConnStep(i) == ConnRead1(i) \/ ConnRead2(i) \/ ConnWait(i)

AcceptNext ==
    \/ AcceptConn
    \/ \E i \in 1..MaxConns : PeerSend(i)
    \/ \E i \in 1..MaxConns : ConnStep(i)

\* every spawned task and every peer is scheduled
AcceptFairness ==
    \A i \in 1..MaxConns : WF_vars(PeerSend(i)) /\ WF_vars(ConnStep(i))

SpecAccept == AcceptInit /\ [][AcceptNext]_vars /\ AcceptFairness

(***************************************************************************)
(* SpecWriter: FrameSender::handle_tx, the client's write task, over a      *)
(* ConnectionWriter.  Producers send frames on the queue; the task takes    *)
(* one, writes its tag, its length and its payload, flushes, and takes the  *)
(* next.  Any write or flush may return an I/O error.                       *)
(***************************************************************************)
MaxQueued == 2

\* frames a producer may send on the queue
WriterFrames == {Initialize(<<1>>), Check(NonceA, <<2>>), KeyAgreement(UuidB)}

\* the three write calls of write_frame, in order
WritePieces(f) ==
    LET encoded == FrameEncode(f) IN
    [tag |-> <<WriteTag(f)>>, len |-> ToBE8(Len(encoded)), payload |-> encoded]

\* where write_frame goes after a call that succeeded
AfterPiece(pc) ==
    CASE pc = "tag" -> "len" [] pc = "len" -> "payload" [] pc = "payload" -> "flush"

\* handle_tx after write_frame returned Err: `?` ends the task
a_WriteErrorIgnored(pc) == "recv"
AfterWriteError(pc) == "failed"

WriterInit ==
    /\ wt_pc = "recv"
    /\ wt_rx = <<>>
    /\ wt_senders = "alive"
    /\ wt_enq = <<>>
    /\ wt_cur = NoFrame
    /\ wt_out = <<>>
    /\ wt_flushed = 0
    /\ wt_erred = FALSE
    /\ CodecIdle /\ FramerIdle /\ HandshakeIdle /\ DatagramIdle
    /\ AcceptIdle /\ SenderIdle

\* a producer (run, or the read task) sends a frame on the queue; send fails
\* once the receiver is dropped
WriterEnqueue ==
    /\ wt_senders = "alive"
    /\ wt_pc \notin {"done", "failed"}
    /\ Len(wt_enq) < MaxQueued
    /\ \E f \in WriterFrames :
        /\ wt_rx' = Append(wt_rx, f)
        /\ wt_enq' = Append(wt_enq, f)
    /\ UNCHANGED <<wt_pc, wt_senders, wt_cur, wt_out, wt_flushed, wt_erred,
                   cdVars, frVars, hsVars, dgVars, acVars, snVars>>

\* every sender of the queue is dropped
WriterDropSenders ==
    /\ wt_senders = "alive"
    /\ wt_senders' = "dropped"
    /\ UNCHANGED <<wt_pc, wt_rx, wt_enq, wt_cur, wt_out, wt_flushed, wt_erred,
                   cdVars, frVars, hsVars, dgVars, acVars, snVars>>

\* handle_tx: self.rx.recv().await
WriterRecv ==
    /\ wt_pc = "recv"
    /\ RecvReady(wt_rx, IF wt_senders = "alive" THEN 1 ELSE 0)
    /\ IF wt_rx = <<>>
       THEN /\ wt_pc' = "done"
            /\ UNCHANGED <<wt_rx, wt_cur>>
       ELSE LET r == Recv(wt_rx) IN
            /\ wt_rx' = r.rest
            /\ wt_cur' = r.msg
            /\ wt_pc' = "tag"
    /\ UNCHANGED <<wt_senders, wt_enq, wt_out, wt_flushed, wt_erred,
                   cdVars, frVars, hsVars, dgVars, acVars, snVars>>

\* write_frame: write_u8(0), write_all(len), write_all(&encoded); a call
\* that fails may have written a part of its bytes
WriterWrite ==
    /\ wt_pc \in {"tag", "len", "payload"}
    /\ LET piece == WritePieces(wt_cur)[wt_pc] IN
       \/ /\ wt_out' = wt_out \o piece
          /\ wt_pc' = AfterPiece(wt_pc)
          /\ UNCHANGED wt_erred
       \/ /\ \E k \in 0..(Len(piece) - 1) : wt_out' = wt_out \o SubSeq(piece, 1, k)
          /\ wt_erred' = TRUE
          /\ wt_pc' = AfterWriteError(wt_pc)
    /\ UNCHANGED <<wt_rx, wt_senders, wt_enq, wt_cur, wt_flushed,
                   cdVars, frVars, hsVars, dgVars, acVars, snVars>>

\* write_frame: self.writer.flush().await
WriterFlush ==
    /\ wt_pc = "flush"
    /\ \/ /\ wt_flushed' = Len(wt_out)
          /\ wt_pc' = "recv"
          /\ UNCHANGED wt_erred
       \/ /\ wt_erred' = TRUE
          /\ wt_pc' = AfterWriteError(wt_pc)
          /\ UNCHANGED wt_flushed
    /\ UNCHANGED <<wt_rx, wt_senders, wt_enq, wt_cur, wt_out,
                   cdVars, frVars, hsVars, dgVars, acVars, snVars>>

WriterNext ==
    WriterEnqueue \/ WriterDropSenders \/ WriterRecv \/ WriterWrite \/ WriterFlush

SpecWriter == WriterInit /\ [][WriterNext]_vars

(***************************************************************************)
(* SpecSender: UdpSender::handle_send.  The caller queues payloads; the     *)
(* task takes one, encrypts it under the keys the sender was built with     *)
(* and gives the packet to the socket.  The key's random generator          *)
(* produces the nonce of each seal: any twelve bytes, whatever it produced  *)
(* before.                                                                  *)
(***************************************************************************)
MaxSends == 2

\* the nonce seal_in_place_append_tag seals with and returns: the one the
\* key's generator produced in this call (earlier: those of earlier calls)
a_SealNonceKeptFromFirstCall(generated, earlier) ==
    IF earlier = <<>> THEN generated ELSE earlier[1]
SealNonce(generated, earlier) == generated

SenderInit ==
    /\ sn_pc = "recv"
    /\ sn_key \in [id : SessionIds, rnk : AeadKeys, hmac : HmacKeys]
    /\ sn_rx = <<>>
    /\ sn_drawn = <<>>
    /\ sn_packets = <<>>
    /\ CodecIdle /\ FramerIdle /\ HandshakeIdle /\ DatagramIdle
    /\ AcceptIdle /\ WriterIdle

\* the caller sends a payload on the queue
SenderQueue ==
    /\ sn_pc = "recv"
    /\ Len(sn_packets) + Len(sn_rx) < MaxSends
    /\ \E data \in Payloads : sn_rx' = Append(sn_rx, data)
    /\ UNCHANGED <<sn_pc, sn_key, sn_drawn, sn_packets,
                   cdVars, frVars, hsVars, dgVars, acVars, wtVars>>

\* the caller drops its sender; the payloads queued are still received
SenderClose ==
    /\ sn_pc = "recv"
    /\ sn_pc' = "draining"
    /\ UNCHANGED <<sn_key, sn_rx, sn_drawn, sn_packets,
                   cdVars, frVars, hsVars, dgVars, acVars, wtVars>>

\* handle_send: one turn of the loop (recv, encrypt, socket.send)
SenderSend ==
    /\ sn_pc \in {"recv", "draining"}
    /\ sn_rx # <<>>
    /\ LET r == Recv(sn_rx) IN
        /\ sn_rx' = r.rest
        /\ \E generated \in Nonces :
            /\ sn_drawn' = Append(sn_drawn, generated)
            /\ sn_packets' = Append(sn_packets,
                   UdpSenderEncrypt(sn_key.id, sn_key.rnk, sn_key.hmac,
                                    SealNonce(generated, sn_drawn), r.msg))
    /\ UNCHANGED <<sn_pc, sn_key, cdVars, frVars, hsVars, dgVars, acVars, wtVars>>

\* handle_send: recv returns None, the loop ends
SenderEnd ==
    /\ sn_pc = "draining"
    /\ sn_rx = <<>>
    /\ sn_pc' = "done"
    /\ UNCHANGED <<sn_key, sn_rx, sn_drawn, sn_packets,
                   cdVars, frVars, hsVars, dgVars, acVars, wtVars>>

SenderNext == SenderQueue \/ SenderClose \/ SenderSend \/ SenderEnd

SpecSender == SenderInit /\ [][SenderNext]_vars

(***************************************************************************)
(* C1  Over a reliable in-order stream the control frames are written in    *)
(* the order Initialize (client), PeerInitialize (relay), Check (client),   *)
(* KeyAgreement (relay), each at most once, and the party that writes a     *)
(* frame has by then received the frame that precedes it in this order.     *)
(***************************************************************************)
HandshakeOrder ==
    <<[from |-> "client", type |-> "Initialize"],
      [from |-> "relay", type |-> "PeerInitialize"],
      [from |-> "client", type |-> "Check"],
      [from |-> "relay", type |-> "KeyAgreement"]>>

C1_FrameOrder ==
    net = "reliable" =>
        /\ Len(wire_log) <= Len(HandshakeOrder)
        /\ \A i \in 1..Len(wire_log) :
            /\ wire_log[i].from = HandshakeOrder[i].from
            /\ wire_log[i].frame.type = HandshakeOrder[i].type
            /\ i > 1 => \E j \in 1..Len(wire_log[i].seen) :
                            wire_log[i].seen[j] = HandshakeOrder[i - 1].type

C1_Witness ==
    /\ net = "reliable" /\ c_handler = "FrameReader"
    /\ Len(wire_log) = 4
    /\ wire_log[4].frame.type = "KeyAgreement"

(***************************************************************************)
(* C2  The relay has generated a session id, published it or written a      *)
(* KeyAgreement frame only if the Check frame it was given opens, under the *)
(* AEAD key derived for this connection, to the marker.                     *)
(***************************************************************************)
RelayAgreed == X25519Agree(r_epk, r_peer_pk)
RelayAeadKey == HkdfExpand(HkdfExtract(r_salt, RelayAgreed.km), "aead key")

KeyAgreementWritten ==
    \E i \in 1..Len(wire_log) :
        wire_log[i].from = "relay" /\ wire_log[i].frame.type = "KeyAgreement"

SessionIdPublished ==
    \/ r_id # None
    \/ \E i \in 1..Len(r_state_q) : r_state_q[i].tag = "Uuid"
    \/ r_uuid # UuidNil
    \/ r_result # None

VerifiedCheck ==
    /\ r_check # None
    /\ RelayAgreed.ok
    /\ Open(RelayAeadKey, r_check[1].nonce, r_check[1].enc) = Some(Yoda)

C2_VerifiedBeforeSessionId ==
    (KeyAgreementWritten \/ SessionIdPublished) => VerifiedCheck

C2_Witness ==
    /\ net = "hostile" /\ hostile_left = 0
    /\ KeyAgreementWritten /\ r_id = Some(UuidB) /\ r_pc = "promoted"
    /\ VerifiedCheck

(***************************************************************************)
(* C3  If the ciphertext of the Check frame given to the relay was altered  *)
(* after it was sealed, handle_connection has failed with DecryptionFailed, *)
(* no session id was generated, no KeyAgreement frame was written and the   *)
(* connection is not promoted.                                              *)
(***************************************************************************)
C3_TamperRejected ==
    (r_check # None /\ r_check[1].enc.flip # 0) =>
        /\ r_pc = "failed"
        /\ r_err = Some("DecryptionFailed")
        /\ r_id = None
        /\ ~KeyAgreementWritten
        /\ r_result = None

C3_Witness ==
    /\ r_check # None /\ r_check[1].enc.flip # 0
    /\ c_seal_key # None /\ r_rnk = c_seal_key
    /\ r_check[1].enc.key = r_rnk[1] /\ r_check[1].enc.pt = Yoda
    /\ r_err = Some("DecryptionFailed")

(***************************************************************************)
(* C4  Once both roles of a reliable run have derived keys, each has an     *)
(* AEAD key and a MAC key, the two AEAD keys are equal and the two MAC keys *)
(* are equal.                                                               *)
(***************************************************************************)
HasKey(okm, info, key) ==
    \E i \in 1..Len(okm) : okm[i].info = info /\ okm[i].key = key

SameKey(info) ==
    \E i \in 1..Len(c_okm) : c_okm[i].info = info /\ HasKey(r_okm, info, c_okm[i].key)

C4_SameKeys ==
    (net = "reliable" /\ c_handler = "FrameReader" /\ c_okm # <<>> /\ r_okm # <<>>) =>
        SameKey("aead key") /\ SameKey("hmac key")

(***************************************************************************)
(* C5  With a reliable stream that stays open and weak fairness on every    *)
(* task, eventually handle_connection has returned a (key, session id) pair *)
(* and run has received the session id and left its loop.                   *)
(***************************************************************************)
HandshakeComplete ==
    /\ r_pc \in {"returned", "promoted"}
    /\ r_id # None
    /\ r_result = Some(<<RelayAeadKey, r_id[1]>>)
    /\ c_run_pc = "udp"
    /\ c_uuid = r_id

C5_Completes == <>HandshakeComplete

C5_Witness ==
    /\ HandshakeComplete
    /\ r_pc = "promoted" /\ c_rd_pc = "done" /\ c_handler = "FrameReader"

(***************************************************************************)
(* C6  Round trip: for every control frame f, Frame::parse of the bytes     *)
(* that write_frame emits for f returns exactly f, and leaves the cursor at *)
(* the full length of those bytes.                                          *)
(***************************************************************************)
C6_RoundTrip ==
    (cd_pc = "parsed" /\ cd_input = cd_bytes) =>
        /\ cd_result.kind = "frame"
        /\ cd_result.frame = cd_frame
        /\ cd_result.pos = Len(cd_bytes)

C6_Witness ==
    /\ cd_pc = "parsed" /\ cd_input = cd_bytes
    /\ cd_frame = KeyAgreement(UuidB)
    /\ cd_result.frame = cd_frame /\ cd_result.pos = 47

RECURSIVE SumLen(_)
SumLen(fs) == IF fs = <<>> THEN 0 ELSE Len(WriteFrame(Head(fs))) + SumLen(Tail(fs))

EncLens == [k \in 0..Len(fr_frames) |-> SumLen(SubSeq(fr_frames, 1, k))]

\* the frame read_frame returns when the encoding of f arrives in one read
WholeDelivery(f) == FrameParse(WriteFrame(f)).frame

(***************************************************************************)
(* C7  Partial delivery: however the socket cuts a valid encoding into      *)
(* pieces, read_frame returns the frame it returns when the encoding        *)
(* arrives whole, and not before every byte of it has arrived.  Stated of   *)
(* each call at the moment it returns (a returned value never changes).     *)
(***************************************************************************)
C7_PartialDelivery ==
    LET i == Len(fr_returned) IN
    (fr_pc = "idle" /\ i > 0 /\ fr_returned[i].kind = "frame") =>
        /\ i <= Len(fr_frames)
        /\ fr_returned[i].frame = WholeDelivery(fr_frames[i])
        /\ fr_delivered >= EncLens[i]

\* a frame has just been returned by a call that needed several socket reads
C7_Witness ==
    /\ fr_pc = "idle" /\ fr_reads = 2
    /\ Len(fr_returned) = 1
    /\ fr_returned[1].kind = "frame"
    /\ fr_returned[1].frame = KeyAgreement(UuidA)

(***************************************************************************)
(* C9  Zero-length read: read_frame returns Ok(None) when the buffer is     *)
(* empty and Err(ConnectionResetByPeer) when it holds unconsumed bytes, and *)
(* never a frame.                                                           *)
(***************************************************************************)
C9_ZeroLengthRead ==
    \A i \in 1..Len(fr_returned) :
        fr_returned[i].zero =>
            \/ fr_returned[i].kind = "eof" /\ fr_returned[i].held = 0
            \/ /\ fr_returned[i].kind = "err"
               /\ fr_returned[i].err = "ConnectionResetByPeer"
               /\ fr_returned[i].held > 0

\* the peer closed in the middle of the second frame
C9_Witness ==
    /\ Len(fr_returned) = 2
    /\ fr_returned[1].kind = "frame"
    /\ fr_returned[2].zero /\ fr_returned[2].kind = "err" /\ fr_returned[2].held > 0

(***************************************************************************)
(* C10  Arrival order: over a stream that is the concatenation of N valid   *)
(* encodings, in any chunking, successive read_frame calls return those N   *)
(* frames in order, none skipped, duplicated or reordered, then Ok(None)    *)
(* once the peer has closed.                                                *)
(***************************************************************************)
\* the peer closed at a frame boundary: the stream is k whole frames
WholeFramesSent(lens, k) == fr_closed /\ fr_wire = <<>> /\ fr_delivered = lens[k]

C10_ArrivalOrder ==
    \/ fr_returned = <<>>
    \/ LET lens == EncLens IN
       /\ \A i \in 1..Len(fr_returned) :
           /\ fr_returned[i].kind = "frame" =>
                 i <= Len(fr_frames) /\ fr_returned[i].frame = fr_frames[i]
           /\ fr_returned[i].kind = "eof" =>
                 \E k \in 0..Len(fr_frames) :
                     /\ WholeFramesSent(lens, k)
                     /\ k < i
                     /\ \A j \in 1..k : fr_returned[j].kind = "frame"
                     /\ \A j \in (k + 1)..i : fr_returned[j].kind = "eof"
       /\ \A k \in 0..Len(fr_frames) :
           WholeFramesSent(lens, k) =>
               \A i \in 1..Len(fr_returned) : fr_returned[i].kind # "err"

\* two frames returned in order, then the end of the stream
C10_Witness ==
    /\ Len(fr_frames) = 2 /\ fr_frames[1] # fr_frames[2]
    /\ Len(fr_returned) = 3
    /\ fr_returned[1].kind = "frame" /\ fr_returned[2].kind = "frame"
    /\ fr_returned[3].kind = "eof"

(***************************************************************************)
(* C11  The tag byte at the head of the bytes write_frame produces for a    *)
(* frame equals the variant id of the frame decoded from those bytes        *)
(* (0 Initialize, 1 PeerInitialize, 2 Check, 3 KeyAgreement).               *)
(***************************************************************************)
C11_TagIsVariantId ==
    (cd_pc = "parsed" /\ cd_input = cd_bytes /\ cd_result.kind = "frame") =>
        /\ cd_input[1] = FrameId(cd_result.frame)
        /\ cd_input[1] = FrameId(cd_frame)

(***************************************************************************)
(* C12  If the first frame the relay reads is not Initialize, or the frame  *)
(* it reads after Initialize is not Check, handle_connection has failed     *)
(* with InvalidFrame, has written no frame after the one it read, and the   *)
(* connection is not promoted.                                              *)
(***************************************************************************)
RelayWrites == SelectSeq(wire_log, LAMBDA e : e.from = "relay")

RelayFirstUnexpected == r_rcvd # <<>> /\ r_rcvd[1].type # "Initialize"

RelaySecondUnexpected ==
    Len(r_rcvd) >= 2 /\ r_rcvd[1].type = "Initialize" /\ r_rcvd[2].type # "Check"

C12_RelayInvalidFrame ==
    /\ RelayFirstUnexpected =>
        /\ r_pc = "failed" /\ r_err = Some("InvalidFrame")
        /\ RelayWrites = <<>>
        /\ r_result = None
    /\ RelaySecondUnexpected =>
        /\ r_pc = "failed" /\ r_err = Some("InvalidFrame")
        /\ Len(RelayWrites) = 1 /\ RelayWrites[1].frame.type = "PeerInitialize"
        /\ r_result = None

C12_Witness ==
    /\ RelaySecondUnexpected
    /\ r_rcvd[2].type = "KeyAgreement"
    /\ r_err = Some("InvalidFrame")
    /\ Len(RelayWrites) = 1

(***************************************************************************)
(* C13  If the first frame the client reads is not PeerInitialize, or the   *)
(* frame it reads after PeerInitialize is not KeyAgreement, the client's    *)
(* read task has failed with InvalidFrame and has published no key and no   *)
(* session id.                                                              *)
(***************************************************************************)
ClientFirstUnexpected == c_rcvd # <<>> /\ c_rcvd[1].type # "PeerInitialize"

ClientSecondUnexpected ==
    Len(c_rcvd) >= 2 /\ c_rcvd[1].type = "PeerInitialize" /\ c_rcvd[2].type # "KeyAgreement"

C13_ClientInvalidFrame ==
    /\ ClientFirstUnexpected =>
        /\ c_rd_pc = "failed" /\ c_rd_err = Some("InvalidFrame")
        /\ c_okm = <<>> /\ c_tx_udp = <<>> /\ ~c_seen_key /\ c_uuid = None
    /\ ClientSecondUnexpected =>
        /\ c_rd_pc = "failed" /\ c_rd_err = Some("InvalidFrame")
        /\ c_uuid = None
        /\ \A i \in 1..Len(c_tx_udp) : c_tx_udp[i].tag # "Uuid"

(***************************************************************************)
(* C14  If the relay reads a Check frame before it has processed an         *)
(* Initialize frame, handle_connection has failed with KeyNotEstablished.   *)
(***************************************************************************)
C14_CheckBeforeKey ==
    (r_rcvd # <<>> /\ r_rcvd[1].type = "Check") =>
        r_pc = "failed" /\ r_err = Some("KeyNotEstablished")

(***************************************************************************)
(* C15  run has left its loop over rx_udp_state, and so starts the datagram *)
(* phase, only if it has received both UdpState::Key and UdpState::Uuid,    *)
(* whatever frames the peer sends.                                          *)
(***************************************************************************)
C15_KeyAndIdBeforeDatagram ==
    c_run_pc = "udp" => (c_seen_key /\ c_uuid # None)

(***************************************************************************)
(* C16  Whenever handle_connection has returned Ok((key, id)), key is the   *)
(* AEAD key handle_initialize derived for the connection, not the all-zero  *)
(* placeholder, and id is the session id of the KeyAgreement frame written  *)
(* on the connection, not the nil id.                                       *)
(***************************************************************************)
C16_PromotedWithDerivedKey ==
    r_result # None =>
        /\ RelayAgreed.ok
        /\ r_result[1][1] = RelayAeadKey
        /\ r_result[1][1] # ZeroKey
        /\ r_result[1][2] # UuidNil
        /\ Len(RelayWrites) = 2
        /\ RelayWrites[2].frame = KeyAgreement(r_result[1][2])

C16_Witness ==
    /\ net = "reliable" /\ c_handler = "MpsFrameHandler"
    /\ r_pc = "promoted"
    /\ r_result = Some(<<RelayAeadKey, UuidA>>)
    /\ RelayWrites[2].frame = KeyAgreement(UuidA)

(***************************************************************************)
(* C17  EncryptedFrame::parse of the packet UdpSender::encrypt produced for *)
(* a session id and a payload, under the sender's AEAD and MAC keys,        *)
(* returns exactly that session id and exactly that payload.                *)
(***************************************************************************)
C17_DatagramRoundTrip ==
    (en_pc = "parsed" /\ en_input = en_packet /\ en_keys = <<en_hmac, en_rnk>>) =>
        /\ en_result.kind = "frame"
        /\ en_result.uuid = en_id
        /\ en_result.data = en_data

(***************************************************************************)
(* C18  handle_read never ends because of a datagram: after a datagram that *)
(* is too short, fails decryption or declares a length larger than the      *)
(* bytes that follow, handle_bytes has returned Ok and the loop goes on.    *)
(***************************************************************************)
C18_MalformedIsDiscarded ==
    \A r \in 1..ud_n : \A i \in 1..Len(ud_log[r]) :
        ud_log[r][i].kind \in {"short", "corrupt", "overlong"} =>
            ud_log[r][i].ok /\ (i = Len(ud_log[r]) => ud_alive[r])

(***************************************************************************)
(* C19  Whatever datagrams a UdpReader received before, a well-formed       *)
(* datagram of its session is decrypted and parsed to the session id and    *)
(* payload that were sent, as when it is the first datagram received.       *)
(***************************************************************************)
C19_IndependentValidation ==
    \A r \in 1..ud_n : \A i \in 1..Len(ud_log[r]) :
        (ud_log[r][i].kind = "valid" /\ ud_log[r][i].origin = r) =>
            /\ ud_log[r][i].out = "message"
            /\ ud_log[r][i].uuid = SessionIdOf(r)
            /\ ud_log[r][i].message = ud_log[r][i].msg

(***************************************************************************)
(* C20  A well-formed datagram of a session is only ever taken by the       *)
(* UdpReader of that session, so it is opened under that session's key.     *)
(***************************************************************************)
C20_OwnSessionKey ==
    \A r \in 1..ud_n : \A i \in 1..Len(ud_log[r]) :
        ud_log[r][i].kind = "valid" => ud_log[r][i].origin = r

(***************************************************************************)
(* The fields of a datagram that holds a whole header and the ciphertext    *)
(* its length field declares.                                               *)
(***************************************************************************)
HeaderLen == NONCE_LEN + SHA512_OUTPUT_LEN + USIZE_LENGTH
NonceOf(src) == SubSeq(src, 1, NONCE_LEN)
MacTagOf(src) == SubSeq(src, NONCE_LEN + 1, NONCE_LEN + SHA512_OUTPUT_LEN)
DeclaredLen(src) == FromBE8(SubSeq(src, NONCE_LEN + SHA512_OUTPUT_LEN + 1, HeaderLen))
HoldsCiphertext(src) == Len(src) >= HeaderLen /\ Len(src) - HeaderLen >= DeclaredLen(src)
CiphertextOf(src) == SubSeq(src, HeaderLen + 1, HeaderLen + DeclaredLen(src))
MacTagMatches(src, hmac) ==
    \A j \in 1..SHA512_OUTPUT_LEN :
        MacTagOf(src)[j] = (ByteSum(CiphertextOf(src)) + hmac * j) % 256
AeadTagMatches(src, rnk) ==
    LET n == DeclaredLen(src) - TAG_LEN
        ct == SubSeq(CiphertextOf(src), 1, n)
    IN  /\ n >= 0
        /\ \A j \in 1..TAG_LEN :
             CiphertextOf(src)[n + j] = (ByteSum(ct) + rnk * j + NonceOf(src)[1] + n) % 256

(***************************************************************************)
(* C21  EncryptedFrame::parse calls open_in_place only after hmac::verify   *)
(* has accepted the MAC tag over the ciphertext bytes, and builds the       *)
(* (session id, payload) frame only after open_in_place has succeeded; a    *)
(* packet whose MAC tag does not verify is never decrypted and yields no    *)
(* frame.                                                                    *)
(***************************************************************************)
C21_VerifyThenDecrypt ==
    en_pc = "parsed" =>
        LET calls == EncryptedFrameCalls(en_input, en_keys[1], en_keys[2])
            verified == HoldsCiphertext(en_input) /\ MacTagMatches(en_input, en_keys[1])
            opened == verified /\ AeadTagMatches(en_input, en_keys[2])
            At(name) == {i \in 1..Len(calls) : calls[i] = name}
        IN  /\ \A o \in At("open_in_place") : verified /\ \E v \in At("verify") : v < o
            /\ \A b \in At("Bytes") : opened /\ \E o \in At("open_in_place") : o < b
            /\ (en_result.kind = "frame") = (At("Bytes") # {})
            /\ en_result.kind = "frame" => opened
            /\ ~verified => (At("open_in_place") = {} /\ en_result.kind # "frame")

\* the packet with a byte of its MAC tag altered was parsed: verify was
\* called, open_in_place was not, and no frame came back
C21_Witness ==
    /\ en_pc = "parsed"
    /\ Len(en_input) = Len(en_packet)
    /\ MacTagOf(en_input) # MacTagOf(en_packet)
    /\ EncryptedFrameCalls(en_input, en_keys[1], en_keys[2]) = <<"verify">>
    /\ en_result.kind = "err"

(***************************************************************************)
(* C22  EncryptedFrame::parse returns Ok(None) or an error, never a frame,  *)
(* for an input shorter than the 12 + 64 + 8 byte header, for an input      *)
(* whose declared ciphertext length exceeds the bytes that remain, and for  *)
(* an input whose MAC tag does not match its ciphertext.                    *)
(***************************************************************************)
C22_Rejects ==
    en_pc = "parsed" =>
        /\ Len(en_input) < HeaderLen => en_result.kind = "none"
        /\ (Len(en_input) >= HeaderLen /\ ~HoldsCiphertext(en_input)) =>
               en_result.kind = "none"
        /\ (HoldsCiphertext(en_input) /\ ~MacTagMatches(en_input, en_keys[1])) =>
               en_result = EncErr("Unspecified")

\* a packet cut one byte short was parsed: its length field declares more
\* than the bytes that remain, and Ok(None) came back
C22_Witness ==
    /\ en_pc = "parsed"
    /\ Len(en_input) >= HeaderLen
    /\ DeclaredLen(en_input) > Len(en_input) - HeaderLen
    /\ en_result = EncNone

(***************************************************************************)
(* C23  Every packet UdpSender::encrypt produces is the 12-byte nonce, the  *)
(* 64-byte MAC tag, the 8-byte big-endian length and the ciphertext; the    *)
(* length field is the number of ciphertext bytes that follow it, and the   *)
(* MAC tag is the tag of exactly those bytes under the session's MAC key.   *)
(***************************************************************************)
C23_PacketLayout ==
    en_pc \in {"sent", "parsed"} =>
        /\ Len(en_packet) = HeaderLen + DeclaredLen(en_packet)
        /\ DeclaredLen(en_packet) = UUID_LEN + Len(en_data) + TAG_LEN
        /\ NonceOf(en_packet) \in Nonces
        /\ SubSeq(en_packet, NONCE_LEN + SHA512_OUTPUT_LEN + 1, HeaderLen)
               = ToBE8(Len(en_packet) - HeaderLen)
        /\ MacTagMatches(en_packet, en_hmac)
        /\ AeadTagMatches(en_packet, en_rnk)

\* a packet for the payload "ping" was produced
C23_Witness ==
    /\ en_pc = "sent"
    /\ en_data = Ping
    /\ Len(en_packet) = HeaderLen + UUID_LEN + Len(Ping) + TAG_LEN

(***************************************************************************)
(* C24  The plaintext UdpSender::encrypt seals is the 16-byte session id,   *)
(* the 8-byte big-endian payload length and the payload bytes, and the      *)
(* relay's UdpReader::handle_bytes, given the nonce and the sealed bytes,   *)
(* parses the session id and the payload out of it.                         *)
(***************************************************************************)
C24_SealedPlaintext ==
    en_pc \in {"sent", "parsed"} =>
        LET nonce == NonceOf(en_packet)
            sealed == CiphertextOf(en_packet)
            plain == AeadDecrypt(en_rnk, nonce, SubSeq(sealed, 1, Len(sealed) - TAG_LEN))
            handled == HandleBytes(nonce \o sealed, Len(nonce \o sealed), en_rnk)
        IN  /\ plain = en_id \o ToBE8(Len(en_data)) \o en_data
            /\ handled.out = "message"
            /\ handled.uuid = en_id
            /\ handled.message = en_data

(***************************************************************************)
(* C25  read_frame never returns the Incomplete error to its caller: a      *)
(* buffer that does not yet hold a whole frame only causes another socket   *)
(* read.                                                                     *)
(***************************************************************************)
C25_IncompleteStaysInside ==
    \A i \in 1..Len(fr_returned) : fr_returned[i].err # "Incomplete"

\* the Key messages a role has published: those on its state queue and the
\* one its loop has taken off it
CountTag(q, tag) == Cardinality({i \in 1..Len(q) : q[i].tag = tag})
ClientKeysPublished == CountTag(c_tx_udp, "Key") + (IF c_seen_key THEN 1 ELSE 0)
RelayKeysPublished ==
    IF r_pc = "off" THEN 0
    ELSE CountTag(r_state_q, "Key") + (IF r_key_bytes # ZeroKey THEN 1 ELSE 0)

(***************************************************************************)
(* C26  In every handshake run each role publishes session key material on  *)
(* its state queue at most once (one Key message, and on the client one     *)
(* HmacKey message), and exactly once in a run that ends Established: a     *)
(* client whose run has left its wait loop has received its one Key, and a  *)
(* relay whose connection was promoted has received its one Key.            *)
(***************************************************************************)
C26_KeyMaterialOnce ==
    /\ ClientKeysPublished <= 1
    /\ CountTag(c_tx_udp, "HmacKey") <= 1
    /\ RelayKeysPublished <= 1
    /\ c_run_pc = "udp" => ClientKeysPublished = 1
    /\ r_pc = "promoted" => RelayKeysPublished = 1

\* the buffer starts with a byte that is no tag
UnknownTagAtHead == fr_buffer # <<>> /\ fr_buffer[1] \notin 0..3

PeerSilent == c2r = <<>> /\ ~c2r_closed
SuspendedAt(p) == r_pc = p /\ r_err = None /\ r_result = None

(***************************************************************************)
(* C28  If the peer neither sends bytes nor closes the connection, the      *)
(* relay's handshake task stays suspended in read_frame forever: from the   *)
(* moment the stream to the relay is empty and open for good, the task      *)
(* stays at the read it is at, reports no error and is never promoted.      *)
(***************************************************************************)
C28_SilentPeerSuspends ==
    \A p \in {"read1", "read2"} :
        []((r_pc = p /\ []PeerSilent) => []SuspendedAt(p))

\* the relay has answered Initialize and is at its second read_frame, with
\* nothing in flight to it and the stream open
C28_Witness ==
    /\ r_pc = "read2"
    /\ PeerSilent
    /\ Len(r_rcvd) = 1
    /\ r_err = None /\ r_result = None

(***************************************************************************)
(* C29  When the client's read task has ended with an error, its sibling    *)
(* tasks are not ended with it: run has not left its loop over the state    *)
(* queue, and the write task is still at its frame queue unless a write of  *)
(* its own failed on a closed stream.                                       *)
(***************************************************************************)
C29_SiblingsNotTerminated ==
    c_rd_pc = "failed" =>
        /\ c_run_pc \in {"spawn_write", "send_init", "wait"}
        /\ c_uuid = None
        /\ \/ c_wr_pc \in {"unspawned", "recv"}
           \/ c_wr_pc = "failed" /\ c2r_closed

\* the read task failed on the peer's public key; run and the write task
\* are both at an empty queue
C29_Witness ==
    /\ c_rd_pc = "failed" /\ c_rd_err = Some("Unspecified")
    /\ c_run_pc = "wait" /\ c_tx_udp = <<>>
    /\ c_wr_pc = "recv" /\ c_tx = <<>>

ConnEnded(c) == c.pc \in {"failed", "promoted"}

\* the outcome of a connection from what its own peer did
OwnOutcome(c) ==
    IF c.kind = "honest"
    THEN /\ c.pc = "promoted" /\ c.err = None
         /\ Len(c.out) = 2 /\ Len(c.rcvd) = 2
         /\ c.rnk # None /\ c.rcvd[2].enc.key = c.rnk[1]
         /\ c.result = Some(<<c.rnk[1], c.out[2].uuid>>)
    ELSE /\ c.pc = "failed" /\ c.result = None
         /\ c.err = Some(CASE c.kind = "wrong_first" -> "InvalidFrame"
                           [] c.kind = "bad_marker" -> "DecryptionFailed"
                           [] c.kind = "reset" -> "ConnectionResetByPeer")

AcceptLoopRuns ==
    /\ ac_loop = "accept"
    /\ Len(ac_conns) < MaxConns => ENABLED AcceptConn

(***************************************************************************)
(* C30  A handshake failure on one relay connection ends only the task of   *)
(* that connection: the accept loop is still accepting, and every other     *)
(* connection reaches, in every interleaving, the outcome its own peer      *)
(* brings about: promotion with the key and id of its own exchange for a    *)
(* peer that follows the handshake, InvalidFrame, DecryptionFailed or       *)
(* ConnectionResetByPeer for one that does not.                             *)
(***************************************************************************)
C30_FailureIsLocal ==
    /\ [](AcceptLoopRuns /\ \A i \in 1..Len(ac_conns) :
                               ConnEnded(ac_conns[i]) => OwnOutcome(ac_conns[i]))
    /\ <>[](\A i \in 1..Len(ac_conns) : ConnEnded(ac_conns[i]))

\* the first connection failed on its first frame, and a connection
\* accepted after that failure was promoted
C30_Witness ==
    /\ Len(ac_conns) = 2
    /\ ac_conns[1].err = Some("InvalidFrame") /\ ac_conns[1].sent = 1
    /\ ac_conns[2].kind = "honest" /\ ac_conns[2].pc = "promoted"
    /\ ac_conns[2].result # None

\* the frames the write task has taken from the queue so far, and the bytes
\* of those it has finished
Dequeued == Len(wt_enq) - Len(wt_rx)
Finished == IF wt_pc \in {"recv", "done"} THEN Dequeued ELSE Dequeued - 1
FinishedBytes == WireOf(SubSeq(wt_enq, 1, Finished))
IsPrefix(s, t) == Len(s) <= Len(t) /\ s = SubSeq(t, 1, Len(s))

(***************************************************************************)
(* C31  The frames sent on the outbound queue are written in the order      *)
(* sent, each at most once: the queue is what is left of the frames sent,   *)
(* and the stream holds the bytes (tag, length, payload) of the frames      *)
(* taken, one after the other, ending with the part written so far of the   *)
(* frame in progress.  Every finished frame is flushed before the next is   *)
(* taken, and once a write or flush has failed nothing more is written or   *)
(* taken.                                                                   *)
(***************************************************************************)
C31_WriteOrder ==
    /\ [](/\ Dequeued >= 0
          /\ wt_rx = SubSeq(wt_enq, Dequeued + 1, Len(wt_enq))
          /\ IF wt_pc \in {"recv", "done"}
             THEN wt_out = FinishedBytes /\ wt_flushed = Len(wt_out)
             ELSE /\ Dequeued >= 1
                  /\ wt_cur = wt_enq[Dequeued]
                  /\ wt_flushed = Len(FinishedBytes)
                  /\ IsPrefix(FinishedBytes, wt_out)
                  /\ IsPrefix(wt_out, FinishedBytes \o WriteFrame(wt_cur)))
    /\ [][wt_erred => wt_out' = wt_out /\ wt_rx' = wt_rx /\ wt_flushed' = wt_flushed]_vars

\* a frame is written and flushed, and a write of the next one fails part-way
C31_Witness ==
    /\ wt_pc = "failed"
    /\ Finished >= 1
    /\ Len(wt_out) > Len(FinishedBytes)

RECURSIVE FramesOf(_)
FramesOf(rs) ==
    IF rs = <<>> THEN <<>>
    ELSE (IF Head(rs).kind = "frame" THEN <<Head(rs).frame>> ELSE <<>>) \o FramesOf(Tail(rs))
ReceivedIs(bytes) ==
    \E junk \in JunkTails :
        /\ fr_delivered <= Len(WireOf(fr_frames) \o junk)
        /\ bytes = SubSeq(WireOf(fr_frames) \o junk, 1, fr_delivered)

(***************************************************************************)
(* C33  At every step of read_frame the bytes received so far are the       *)
(* bytes (tag, length field, payload) of the frames returned so far         *)
(* followed by the receive buffer.  A parse that returns a frame removes    *)
(* from the front of the buffer exactly that frame's bytes, and a parse     *)
(* that returns none leaves the buffer as it was.                           *)
(***************************************************************************)
C33_BufferIsReceivedMinusReturned ==
    /\ [](fr_pc # "off" => ReceivedIs(WireOf(FramesOf(fr_returned)) \o fr_buffer))
    /\ [][fr_pc = "parse" =>
            IF FramesOf(fr_returned') # FramesOf(fr_returned)
            THEN fr_buffer = WriteFrame(fr_returned'[Len(fr_returned')].frame) \o fr_buffer'
            ELSE fr_buffer' = fr_buffer]_vars

\* a frame has been returned and the buffer holds a part of the next one
C33_Witness ==
    /\ Len(FramesOf(fr_returned)) = 1
    /\ fr_buffer # <<>>
    /\ fr_pc = "read"
    /\ Len(fr_frames) = 2

(***************************************************************************)
(* C34  Connection::write_frame(Initialize(d)) writes the bytes of          *)
(* Frame::initialize(d): the length field is the number of payload bytes    *)
(* after it, and Frame::parse of the bytes written returns Initialize(d).   *)
(***************************************************************************)
C34_WriteMatchesReference ==
    /\ cd_pc = "written" =>
        /\ cd_bytes = OldFrameInitialize(cd_frame.pk)
        /\ FromBE8(Slice(cd_bytes, 2, 1 + USIZE_LENGTH)) = Len(cd_bytes) - (1 + USIZE_LENGTH)
    /\ (cd_pc = "parsed" /\ cd_input = ConnWriteFrame(cd_frame)) =>
        /\ cd_result.kind = "frame"
        /\ cd_result.frame = cd_frame

ClosedEarly == c2r_closed /\ c2r = <<>> /\ r_pc \in {"read1", "read2"}

(***************************************************************************)
(* C36  When the peer closes the control connection on a frame boundary     *)
(* before the handshake is complete (before Initialize, or after            *)
(* Initialize and before Check), handle_connection eventually returns,      *)
(* and the connection is not promoted.                                      *)
(***************************************************************************)
C36_ClosedEarlyReturns ==
    [](ClosedEarly => /\ <>(r_pc \in {"failed", "returned"})
                      /\ [](r_pc # "promoted"))

\* the client has written a frame of this type, within the first n entries
\* of the log of writes
ClientWrote(type, n) ==
    \E i \in 1..n : wire_log[i].from = "client" /\ wire_log[i].frame.type = type
InQueue(type) == \E i \in 1..Len(c_tx) : c_tx[i].type = type

(***************************************************************************)
(* C37  Over a stream on which the client reads what the relay wrote, and   *)
(* the relay writes PeerInitialize only once it has read Initialize, the    *)
(* client writes Initialize before Check however run, the read task and     *)
(* the write task interleave: Initialize is on the stream before Check is   *)
(* so much as queued, and no Initialize is written after a Check.           *)
(***************************************************************************)
C37_InitializeBeforeCheck ==
    net = "reliable" =>
        /\ InQueue("Check") => ClientWrote("Initialize", Len(wire_log))
        /\ \A k \in 1..Len(wire_log) :
            (wire_log[k].from = "client" /\ wire_log[k].frame.type = "Check") =>
                /\ ClientWrote("Initialize", k - 1)
                /\ \A j \in (k + 1)..Len(wire_log) :
                    ~(wire_log[j].from = "client" /\ wire_log[j].frame.type = "Initialize")

\* both frames are on the stream, Check behind Initialize
C37_Witness ==
    /\ net = "reliable"
    /\ ClientWrote("Initialize", Len(wire_log))
    /\ ClientWrote("Check", Len(wire_log))
    /\ c_tx = <<>>

\* the Check frames the read task has queued or the write task has written
ClientChecks ==
    {c_tx[i] : i \in {j \in 1..Len(c_tx) : c_tx[j].type = "Check"}}
        \cup {wire_log[i].frame : i \in {j \in 1..Len(wire_log) :
                  wire_log[j].from = "client" /\ wire_log[j].frame.type = "Check"}}

(***************************************************************************)
(* C38  With either client handler (FrameReader, MpsFrameHandler), the key  *)
(* the read task publishes to run as UdpState::Key is the derived AEAD key  *)
(* under which it seals the Check frame.                                    *)
(***************************************************************************)
C38_PublishedKeyIsSealKey ==
    \A i \in 1..Len(c_tx_udp) :
        c_tx_udp[i].tag = "Key" =>
            /\ c_seal_key = Some(c_tx_udp[i].val)
            /\ \A f \in ClientChecks : f.enc.key = c_tx_udp[i].val

\* the session ids the read task has published to run, received or not
ClientPublishedIds ==
    {c_tx_udp[i].val : i \in {j \in 1..Len(c_tx_udp) : c_tx_udp[j].tag = "Uuid"}}
        \cup {c_uuid[i] : i \in 1..Len(c_uuid)}

(***************************************************************************)
(* C39  Over a stream on which the client reads what the relay wrote: a     *)
(* session id the client has published is the one the relay generated in    *)
(* handle_check, which it had generated by then, and once the relay's       *)
(* handle_connection has returned, it is the id that call returned.         *)
(***************************************************************************)
C39_SameSessionId ==
    net = "reliable" =>
        \A u \in ClientPublishedIds :
            /\ r_id = Some(u)
            /\ r_result # None => r_result[1][2] = u

\* run has received the session id and handle_connection has returned it
C39_Witness ==
    /\ net = "reliable"
    /\ c_uuid # None
    /\ r_result # None
    /\ r_result[1][2] = c_uuid[1]
    /\ r_pc = "promoted"

====
